---- MODULE Spec2Model ----
(***************************************************************************)
(* Recommendation pipeline of MetroCampusRecommender                       *)
(* (src/src/agent/recommender.py) with its generation providers            *)
(* (src/src/agent/llm_interface.py).                                       *)
(*                                                                         *)
(* Python strings are sequences of one-character strings, so that          *)
(* lower(), strip(), title(), substring tests and the regular-expression   *)
(* templates of _extract_entities are computed character by character.     *)
(***************************************************************************)
EXTENDS Integers, Sequences, FiniteSets, TLC

\* ------------------------------------------------------------------------
\* Strings
\* ------------------------------------------------------------------------

\* Python None: a value that is no character sequence.
NoneVal == <<"<None>">>

\* bool(x) of an optional string: None and "" are falsy.
Truthy(x) == x # NoneVal /\ x # <<>>

\* F applied to the value of e, computed once.
Bind(e, F(_)) == CHOOSE r \in {F(x) : x \in {e}} : TRUE

\* The least and the greatest element of a set of positive integers, 0 for
\* the empty set.
Min0(S) == Bind(S, LAMBDA T : IF T = {} THEN 0 ELSE CHOOSE e \in T : \A f \in T : e <= f)
Max0(S) == Bind(S, LAMBDA T : IF T = {} THEN 0 ELSE CHOOSE e \in T : \A f \in T : e >= f)

UpperSeq ==
  <<"A","B","C","D","E","F","G","H","I","J","K","L","M","N","O","P","Q","R","S","T","U","V","W","X","Y","Z","Á","É","Í","Ó","Ú","Ñ">>
LowerSeq ==
  <<"a","b","c","d","e","f","g","h","i","j","k","l","m","n","o","p","q","r","s","t","u","v","w","x","y","z","á","é","í","ó","ú","ñ">>

UpperSet == {UpperSeq[i] : i \in 1..Len(UpperSeq)}
LowerSet == {LowerSeq[i] : i \in 1..Len(LowerSeq)}

\* The characters the classes [A-ZÁ-Ú] and [a-záéíóúñ] match under
\* re.IGNORECASE, within the alphabet of the modelled texts.
Letters == UpperSet \cup LowerSet

\* \s, and the characters strip() removes.
Whitespace == {" ", "\t", "\n"}

LowerOf == [c \in UpperSet |-> LowerSeq[CHOOSE i \in 1..Len(UpperSeq) : UpperSeq[i] = c]]
UpperOf == [c \in LowerSet |-> UpperSeq[CHOOSE i \in 1..Len(LowerSeq) : LowerSeq[i] = c]]

ToLower(c) == IF c \in UpperSet THEN LowerOf[c] ELSE c
ToUpper(c) == IF c \in LowerSet THEN UpperOf[c] ELSE c

\* str.lower()
Lower(s) == [i \in 1..Len(s) |-> ToLower(s[i])]

\* needle in haystack
Contains(h, n) ==
  \E i \in 0..(Len(h) - Len(n)) : \A j \in 1..Len(n) : h[i + j] = n[j]

\* needle.lower() in haystack.lower()
ContainsCI(h, n) == Contains(Lower(h), Lower(n))

\* str.strip()
Strip(s) ==
  IF \A i \in 1..Len(s) : s[i] \in Whitespace THEN <<>>
  ELSE LET a == CHOOSE i \in 1..Len(s) :
                  s[i] \notin Whitespace /\ \A j \in 1..(i - 1) : s[j] \in Whitespace
           b == CHOOSE i \in 1..Len(s) :
                  s[i] \notin Whitespace /\ \A j \in (i + 1)..Len(s) : s[j] \in Whitespace
       IN SubSeq(s, a, b)

\* str.title(): a letter that follows a non-letter is upper-cased, every
\* other letter lower-cased.
Title(s) ==
  [i \in 1..Len(s) |->
     IF i = 1 \/ s[i - 1] \notin Letters THEN ToUpper(s[i]) ELSE ToLower(s[i])]

\* ------------------------------------------------------------------------
\* Regular-expression templates of _extract_entities (re.search with
\* re.IGNORECASE): literals joined by \s+, then \s+ (greedy), the capture
\* group (lazy), then a non-capturing alternation of terminators.
\* ------------------------------------------------------------------------

\* The literal lit matches at position p, ignoring case.
LitAt(s, p, lit) ==
  /\ p >= 1
  /\ p + Len(lit) - 1 <= Len(s)
  /\ \A j \in 1..Len(lit) : ToLower(s[p + j - 1]) = ToLower(lit[j])

\* Length of the whitespace run that starts at position p.
SpacesFrom(s, p) ==
  CHOOSE k \in 0..(Len(s) - p + 1) :
    /\ \A j \in 0..(k - 1) : s[p + j] \in Whitespace
    /\ (p + k > Len(s) \/ s[p + k] \notin Whitespace)

\* Terminators: \s+lit, \s*$ and \s*\? .
TWord(lit) == [kind |-> "word", lit |-> lit]
TEnd == [kind |-> "end", lit |-> <<>>]
TQuestion == [kind |-> "question", lit |-> <<>>]

\* The terminator t matches at position e. A literal, "?" and the end of
\* the text are no whitespace, so \s+ and \s* take the whole run.
TermAt(s, e, t) ==
  \E k \in {SpacesFrom(s, e)} :
    CASE t.kind = "word" -> k >= 1 /\ LitAt(s, e + k, t.lit)
      [] t.kind = "end" -> e + k = Len(s) + 1
      [] t.kind = "question" -> e + k <= Len(s) /\ s[e + k] = "?"

\* Position after lit1 \s+ lit2 \s+ ... litN matched at p, 0 when they do
\* not match.
RECURSIVE AfterLits(_, _, _)
AfterLits(s, p, lits) ==
  IF ~LitAt(s, p, Head(lits)) THEN 0
  ELSE IF Len(lits) = 1 THEN p + Len(Head(lits))
       ELSE Bind(p + Len(Head(lits)) + SpacesFrom(s, p + Len(Head(lits))), LAMBDA q :
              IF q = p + Len(Head(lits)) THEN 0
              ELSE Bind(Tail(lits), LAMBDA rest : AfterLits(s, q, rest)))

\* A template: the alternatives of its literal prefix in the order the
\* engine tries them, the classes of the first and of the other characters
\* of its group, the least length of the group, and its terminators.
Template(alts, first, rest, minLen, terms) ==
  [alts |-> alts, first |-> first, rest |-> rest, minLen |-> minLen, terms |-> terms]

\* End (exclusive) of the lazy capture group that starts at c: the least e
\* with s[c] in first, s[c+1..e-1] in rest, at least minLen characters and
\* a terminator at e; 0 when there is none.
CapEnd(s, c, t) ==
  IF c > Len(s) THEN 0
  ELSE Min0({e \in (c + t.minLen)..(Len(s) + 1) :
               /\ s[c] \in t.first
               /\ \A j \in (c + 1)..(e - 1) : s[j] \in t.rest
               /\ \E i \in 1..Len(t.terms) : TermAt(s, e, t.terms[i])})

\* Alternative i of the template tried at position p: <<c, e>> of the
\* capture group, <<0, 0>> when it does not match. The greedy \s+ before the
\* group gives back characters only when the rest fails, so the group starts
\* as far right in the whitespace run as a match allows.
MatchLitsAt(s, p, t, i) ==
  Bind(AfterLits(s, p, t.alts[i]), LAMBDA a :
    IF a = 0 THEN <<0, 0>>
    ELSE Bind(Max0({c \in (a + 1)..(a + SpacesFrom(s, a)) : CapEnd(s, c, t) # 0}), LAMBDA c :
           IF c = 0 THEN <<0, 0>> ELSE <<c, CapEnd(s, c, t)>>))

\* The template tried at position p: the first alternative that matches.
MatchAt(s, p, t) ==
  Bind(Min0({i \in 1..Len(t.alts) : MatchLitsAt(s, p, t, i) # <<0, 0>>}), LAMBDA i :
    IF i = 0 THEN <<0, 0>> ELSE MatchLitsAt(s, p, t, i))

\* re.search(pattern, s, re.IGNORECASE): group(1) of the leftmost match,
\* NoneVal when the template matches nowhere.
Search(s, t) ==
  Bind(Min0({p \in 1..Len(s) : MatchAt(s, p, t) # <<0, 0>>}), LAMBDA p :
    IF p = 0 THEN NoneVal
    ELSE Bind(MatchAt(s, p, t), LAMBDA m : SubSeq(s, m[1], m[2] - 1)))

L_desde ==
  <<"d","e","s","d","e">>
L_origen ==
  <<"o","r","i","g","e","n">>
L_estoy ==
  <<"e","s","t","o","y">>
L_en ==
  <<"e","n">>
L_hasta ==
  <<"h","a","s","t","a">>
L_a ==
  <<"a">>
L_coma ==
  <<",">>
L_quiero ==
  <<"q","u","i","e","r","o">>
L_busco ==
  <<"b","u","s","c","o">>
L_para ==
  <<"p","a","r","a">>
L_y ==
  <<"y">>
L_Master_acc ==
  <<"M","á","s","t","e","r">>
L_Master ==
  <<"M","a","s","t","e","r">>
L_Grado ==
  <<"G","r","a","d","o">>
L_estudiar ==
  <<"e","s","t","u","d","i","a","r">>
L_programa ==
  <<"p","r","o","g","r","a","m","a">>
L_carrera ==
  <<"c","a","r","r","e","r","a">>
L_de ==
  <<"d","e">>
estaciones_comunes ==
  << <<"S","o","l">>,
     <<"A","t","o","c","h","a">>,
     <<"C","h","a","m","a","r","t","í","n">>,
     <<"M","o","n","c","l","o","a">>,
     <<"C","i","u","d","a","d"," ","U","n","i","v","e","r","s","i","t","a","r","i","a">>,
     <<"P","r","í","n","c","i","p","e"," ","P","í","o">>,
     <<"P","a","c","í","f","i","c","o">>,
     <<"P","l","a","z","a"," ","d","e"," ","C","a","s","t","i","l","l","a">> >>
estudios_comunes ==
  << <<"I","n","t","e","l","i","g","e","n","c","i","a"," ","A","r","t","i","f","i","c","i","a","l">>,
     <<"C","i","e","n","c","i","a"," ","e"," ","I","n","g","e","n","i","e","r","í","a"," ","d","e"," ","D","a","t","o","s">>,
     <<"M","a","c","h","i","n","e"," ","L","e","a","r","n","i","n","g">>,
     <<"B","i","g"," ","D","a","t","a">>,
     <<"C","i","b","e","r","s","e","g","u","r","i","d","a","d">> >>

\* ------------------------------------------------------------------------
\* Phase 1: entity extraction
\* ------------------------------------------------------------------------

LetterOrSpace == Letters \cup Whitespace

\* desde\s+([A-ZÁ-Ú][a-záéíóúñ\s]+?)(?:\s+hasta|\s+a|\s+,|\s+quiero|\s+busco|\s+para)
\* origen\s+([A-ZÁ-Ú][a-záéíóúñ\s]+?)(?:\s+hasta|\s+,)
\* estoy\s+en\s+([A-ZÁ-Ú][a-záéíóúñ\s]+?)(?:\s+y|\s+,)
estacion_patterns ==
  << Template(<< <<L_desde>> >>, Letters, LetterOrSpace, 2,
              << TWord(L_hasta), TWord(L_a), TWord(L_coma), TWord(L_quiero),
                 TWord(L_busco), TWord(L_para) >>),
     Template(<< <<L_origen>> >>, Letters, LetterOrSpace, 2,
              << TWord(L_hasta), TWord(L_coma) >>),
     Template(<< <<L_estoy, L_en>> >>, Letters, LetterOrSpace, 2,
              << TWord(L_y), TWord(L_coma) >>) >>

\* (?:Máster|Master|Grado)\s+en\s+([A-ZÁ-Úa-záéíóúñ\s]+?)(?:\s*$|\s*\?|\s+desde|\s+,)
\* estudiar\s+([A-ZÁ-Úa-záéíóúñ\s]+?)(?:\s+desde|\s+en|\s*\?|\s*$)
\* (?:programa|carrera)\s+(?:de\s+)?([A-ZÁ-Úa-záéíóúñ\s]+?)(?:\s+desde|\s*\?|\s*$)
estudio_patterns ==
  << Template(<< <<L_Master_acc, L_en>>, <<L_Master, L_en>>, <<L_Grado, L_en>> >>,
              LetterOrSpace, LetterOrSpace, 1,
              << TEnd, TQuestion, TWord(L_desde), TWord(L_coma) >>),
     Template(<< <<L_estudiar>> >>, LetterOrSpace, LetterOrSpace, 1,
              << TWord(L_desde), TWord(L_en), TQuestion, TEnd >>),
     Template(<< <<L_programa, L_de>>, <<L_programa>>, <<L_carrera, L_de>>, <<L_carrera>> >>,
              LetterOrSpace, LetterOrSpace, 1,
              << TWord(L_desde), TQuestion, TEnd >>) >>

\* for pattern in patterns: match = re.search(...); if match: ...; break
\* group(1) of the first template that matches, NoneVal when none does.
FirstTemplate(query, patterns) ==
  Bind(Min0({i \in 1..Len(patterns) : Search(query, patterns[i]) # NoneVal}), LAMBDA i :
    IF i = 0 THEN NoneVal ELSE Search(query, patterns[i]))

\* for name in names: if name.lower() in query.lower(): ...; break
FirstKnown(query, names) ==
  Bind(Min0({i \in 1..Len(names) : ContainsCI(query, names[i])}), LAMBDA i :
    IF i = 0 THEN NoneVal ELSE names[i])

\* The value a matching template gives the field, and the fallback on the
\* known names when the field is still empty (if not entities[...]).
OrKnown(v, query, names) ==
  IF Truthy(v) THEN v
  ELSE Bind(FirstKnown(query, names), LAMBDA k : IF k = NoneVal THEN v ELSE k)

\* entities["estacion_origen"] = match.group(1).strip().title()
ExtractEstacion(query) ==
  Bind(estacion_patterns, LAMBDA patterns :
    Bind(FirstTemplate(query, patterns), LAMBDA g :
      Bind(IF g = NoneVal THEN NoneVal ELSE Bind(Strip(g), LAMBDA st : Title(st)), LAMBDA v :
        Bind(estaciones_comunes, LAMBDA names : OrKnown(v, query, names)))))

\* entities["estudio"] = match.group(1).strip()
ExtractEstudio(query) ==
  Bind(estudio_patterns, LAMBDA patterns :
    Bind(FirstTemplate(query, patterns), LAMBDA g :
      Bind(IF g = NoneVal THEN NoneVal ELSE Strip(g), LAMBDA v :
        Bind(estudios_comunes, LAMBDA names : OrKnown(v, query, names)))))

\* MetroCampusRecommender._extract_entities
ExtractEntities(query) ==
  [estacion_origen |-> ExtractEstacion(query), estudio |-> ExtractEstudio(query)]


\* ------------------------------------------------------------------------
\* Texts of the modelled queries and stores
\* ------------------------------------------------------------------------

QSolIA ==
  <<"D","e","s","d","e"," ","S","o","l",","," ","¿","c","u","á","l"," ","e","s"," ","e","l"," ","m","e","j","o","r"," ","c","a","m","p","u","s"," ","p","a","r","a"," ","e","s","t","u","d","i","a","r"," ","e","l"," ","M","á","s","t","e","r"," ","e","n"," ","I","n","t","e","l","i","g","e","n","c","i","a"," ","A","r","t","i","f","i","c","i","a","l","?">>
QNoOrigin ==
  <<"¿","D","ó","n","d","e"," ","p","u","e","d","o"," ","e","s","t","u","d","i","a","r"," ","B","i","g"," ","D","a","t","a","?">>
QNoStudy ==
  <<"E","s","t","o","y"," ","e","n"," ","M","o","n","c","l","o","a",","," ","q","u","i","e","r","o"," ","i","r"," ","a"," ","u","n"," ","c","a","m","p","u","s">>
QNone ==
  <<"H","o","l","a",","," ","¿","q","u","é"," ","t","a","l","?">>
QTitle ==
  <<"D","e","s","d","e"," ","s","o","l"," ","p","a","r","a"," ","e","s","t","u","d","i","a","r"," ","b","i","g"," ","d","a","t","a">>
S_Sol ==
  <<"S","o","l">>
S_CuatroCaminos ==
  <<"C","u","a","t","r","o"," ","C","a","m","i","n","o","s">>
S_CiudadUniversitaria ==
  <<"C","i","u","d","a","d"," ","U","n","i","v","e","r","s","i","t","a","r","i","a">>
S_Moncloa ==
  <<"M","o","n","c","l","o","a">>
S_Callao ==
  <<"C","a","l","l","a","o">>
S_Arguelles ==
  <<"A","r","g","ü","e","l","l","e","s">>
N_CU_UCM ==
  <<"C","i","u","d","a","d"," ","U","n","i","v","e","r","s","i","t","a","r","i","a"," ","(","U","C","M",")">>
N_Moncloa_UPM ==
  <<"C","a","m","p","u","s"," ","d","e"," ","M","o","n","c","l","o","a"," ","(","U","P","M",")">>
U_UCM ==
  <<"U","C","M">>
U_UPM ==
  <<"U","P","M">>
E_MasterIA ==
  <<"M","á","s","t","e","r"," ","e","n"," ","I","n","t","e","l","i","g","e","n","c","i","a"," ","A","r","t","i","f","i","c","i","a","l">>
E_GradoInformatica ==
  <<"G","r","a","d","o"," ","e","n"," ","I","n","g","e","n","i","e","r","í","a"," ","I","n","f","o","r","m","á","t","i","c","a">>
E_MasterBigData ==
  <<"M","á","s","t","e","r"," ","e","n"," ","B","i","g"," ","D","a","t","a">>
T_Master ==
  <<"M","á","s","t","e","r">>
T_Grado ==
  <<"G","r","a","d","o">>
R_principal ==
  <<"p","r","i","n","c","i","p","a","l">>
R_alternativa ==
  <<"a","l","t","e","r","n","a","t","i","v","a">>
T_InteligenciaArtificial ==
  <<"I","n","t","e","l","i","g","e","n","c","i","a"," ","A","r","t","i","f","i","c","i","a","l">>
T_BigData ==
  <<"B","i","g"," ","D","a","t","a">>
K_baseline ==
  <<"b","a","s","e","l","i","n","e">>
K_sin_contexto ==
  <<"s","i","n"," ","c","o","n","t","e","x","t","o">>
K_graphrag ==
  <<"g","r","a","p","h","r","a","g">>
K_contexto ==
  <<"c","o","n","t","e","x","t","o">>
PyNone ==
  <<"N","o","n","e">>
NoEspecificada ==
  <<"N","o"," ","e","s","p","e","c","i","f","i","c","a","d","a">>
NoEspecificado ==
  <<"N","o"," ","e","s","p","e","c","i","f","i","c","a","d","o">>
OrigenPlaceholder ==
  <<"[","o","r","i","g","e","n","]">>

\* ------------------------------------------------------------------------
\* Document store: the campus collection of metro_campus_db
\* ------------------------------------------------------------------------

Estudio(nombre, tipo, creditos) ==
  [nombre |-> nombre, tipo |-> tipo, creditos |-> creditos]

Cercana(nombre_estacion, rol, minutos_andando) ==
  [nombre_estacion |-> nombre_estacion, rol |-> rol, minutos_andando |-> minutos_andando]

CampusCU ==
  [nombre |-> N_CU_UCM, universidad |-> U_UCM,
   estudios |-> << Estudio(E_GradoInformatica, T_Grado, 240),
                   Estudio(E_MasterIA, T_Master, 60) >>,
   estaciones_cercanas |-> << Cercana(S_CiudadUniversitaria, R_principal, 5),
                              Cercana(S_Moncloa, R_alternativa, 15) >>]

CampusMoncloa ==
  [nombre |-> N_Moncloa_UPM, universidad |-> U_UPM,
   estudios |-> << Estudio(E_MasterIA, T_Master, 60),
                   Estudio(E_MasterBigData, T_Master, 0) >>,
   estaciones_cercanas |-> << Cercana(NoneVal, R_alternativa, 20),
                              Cercana(S_Moncloa, R_principal, 16),
                              Cercana(S_Arguelles, R_alternativa, 12) >>]

\* The contents the campus collection may have.
CampusCollections == { <<CampusCU>>, <<CampusMoncloa, CampusCU>> }

\* db.campus.find({"estudios.nombre": {"$regex": q, "$options": "i"}}): the
\* documents with a study whose name contains q, ignoring case (q is made of
\* letters and blanks, which a regular expression matches literally).
MongoFind(coll, q) ==
  SelectSeq(coll, LAMBDA c : \E i \in 1..Len(c.estudios) : ContainsCI(c.estudios[i].nombre, q))

\* A failure of the document capability: it raises once `after` documents
\* of the cursor have been handed out (0: find itself raises).
NoFault == [raises |-> FALSE, after |-> 0]
MongoFaults(n) == {NoFault} \cup {[raises |-> TRUE, after |-> k] : k \in 0..n}

\* One turn of the loop over the cursor: the CampusMatch of a document, kept
\* only when a study matches.
CampusMatchMut(campus, q) ==
  << [nombre |-> campus.nombre, universidad |-> campus.universidad,
      estudios |-> campus.estudios,
      estaciones_cercanas |-> campus.estaciones_cercanas] >>
CampusMatch(campus, q) ==
  LET estudios_match == SelectSeq(campus.estudios, LAMBDA e : ContainsCI(e.nombre, q))
  IN IF estudios_match # <<>>
     THEN << [nombre |-> campus.nombre, universidad |-> campus.universidad,
              estudios |-> estudios_match,
              estaciones_cercanas |-> campus.estaciones_cercanas] >>
     ELSE <<>>

RECURSIVE CampusList(_, _, _)
CampusList(cursor, q, k) ==
  IF k = 0 THEN <<>>
  ELSE CampusList(cursor, q, k - 1) \o CampusMatch(cursor[k], q)

\* except Exception: ... return []
SearchFailedMut(campus_list) == campus_list
SearchFailed(campus_list) == <<>>

\* for campus in campus_cursor: the documents the cursor hands out before the
\* loop ends.
HandedOut(coll, q, fault) == IF fault.raises THEN fault.after ELSE Len(MongoFind(coll, q))

\* MetroCampusRecommender._search_campus_mongodb
SearchCampusMongodb(coll, q, fault) ==
  LET cursor == MongoFind(coll, q) IN
  IF fault.raises
  THEN SearchFailed(CampusList(cursor, q, fault.after))
  ELSE CampusList(cursor, q, Len(cursor))

\* The queries a caller may pass.
Queries == {QSolIA, QNoOrigin, QNoStudy, QNone, QTitle}

\* _extract_entities of every query, computed once.
Extracted == [q \in Queries |-> ExtractEntities(q)]

AskedOrigins == {Extracted[q].estacion_origen : q \in Queries} \ {NoneVal}
AskedDestinations ==
  UNION {UNION {{c.estaciones_cercanas[i].nombre_estacion : i \in 1..Len(c.estaciones_cercanas)} :
                  c \in {coll[j] : j \in 1..Len(coll)}} : coll \in CampusCollections} \ {NoneVal}

\* ------------------------------------------------------------------------
\* Graph store: Estacion nodes joined by SIGUIENTE relationships
\* ------------------------------------------------------------------------

MaxPathLen == 3

Sig(desde, hasta, lineaId) == [desde |-> desde, hasta |-> hasta, lineaId |-> lineaId]

GraphOneChange ==
  { Sig(S_Sol, S_CuatroCaminos, 1), Sig(S_CuatroCaminos, S_CiudadUniversitaria, 6),
    Sig(S_CiudadUniversitaria, S_Moncloa, 3) }
GraphTie ==
  { Sig(S_Sol, S_CuatroCaminos, 1), Sig(S_CuatroCaminos, S_CiudadUniversitaria, 6),
    Sig(S_CiudadUniversitaria, S_Moncloa, 6), Sig(S_Sol, S_Moncloa, 3) }
GraphSplit ==
  { Sig(S_Sol, S_CuatroCaminos, 1), Sig(S_CiudadUniversitaria, S_Moncloa, 6) }
GraphDirect ==
  { Sig(S_Sol, S_Callao, 3), Sig(S_Callao, S_Arguelles, 3), Sig(S_Arguelles, S_Moncloa, 3),
    Sig(S_Sol, S_CuatroCaminos, 1), Sig(S_CuatroCaminos, S_CiudadUniversitaria, 6) }

\* The contents the graph store may have.
Graphs == {GraphOneChange, GraphTie, GraphSplit, GraphDirect}

Nodes(edges) == {e.desde : e \in edges} \cup {e.hasta : e \in edges}

\* -[:SIGUIENTE]- is traversed in either direction.
Steps(edges, n) ==
  {[to |-> e.hasta, linea |-> e.lineaId] : e \in {x \in edges : x.desde = n}}
  \cup {[to |-> e.desde, linea |-> e.lineaId] : e \in {x \in edges : x.hasta = n}}

InSeq(s, x) == \E i \in 1..Len(s) : s[i] = x

\* The paths of k relationships that leave o, without a repeated node.
RECURSIVE PathsOfLen(_, _, _)
PathsOfLen(edges, o, k) ==
  IF k = 0 THEN {[nodes |-> <<o>>, lineas |-> <<>>]}
  ELSE UNION {
         {[nodes |-> Append(p.nodes, st.to), lineas |-> Append(p.lineas, st.linea)] :
            st \in {x \in Steps(edges, p.nodes[Len(p.nodes)]) : ~InSeq(p.nodes, x.to)}} :
         p \in PathsOfLen(edges, o, k - 1)}

PathsTo(edges, o, d, k) == {p \in PathsOfLen(edges, o, k) : p.nodes[Len(p.nodes)] = d}

\* shortestPath((origen)-[:SIGUIENTE*]-(destino)): the paths of least length
\* between two stored stations, the empty set when they are not joined.
ShortestPaths(edges, o, d) ==
  LET ks == {k \in 0..MaxPathLen : PathsTo(edges, o, d, k) # {}}
  IN IF o \notin Nodes(edges) \/ d \notin Nodes(edges) \/ ks = {} THEN {}
     ELSE PathsTo(edges, o, d, CHOOSE k \in ks : \A j \in ks : k <= j)

\* The pairs of a station a modelled query names and a station near a
\* modelled campus that the store joins: the questions the pipeline can put.
Joined(edges) ==
  {od \in AskedOrigins \X AskedDestinations : ShortestPaths(edges, od[1], od[2]) # {}}

\* The tables that give every joined pair one of its shortest paths: which
\* of several the store returns is its own choice, fixed while its contents
\* are unchanged.
RECURSIVE PathTables(_, _)
PathTables(edges, pairs) ==
  IF pairs = {} THEN {<<>>}
  ELSE LET od == CHOOSE x \in pairs : TRUE IN
       {(od :> p) @@ t : p \in ShortestPaths(edges, od[1], od[2]),
                         t \in PathTables(edges, pairs \ {od})}

GraphStores == UNION {{[edges |-> g, shortest |-> t] : t \in PathTables(g, Joined(g))} : g \in Graphs}

\* ------------------------------------------------------------------------
\* Phase 2: retrieval
\* ------------------------------------------------------------------------

\* range(a, b) of Cypher, both ends included.
Range(a, b) == IF b < a THEN <<>> ELSE [i \in 1..(b - a + 1) |-> a + i - 1]

RECURSIVE SumSeq(_)
SumSeq(s) == IF s = <<>> THEN 0 ELSE Head(s) + SumSeq(Tail(s))

\* CASE WHEN lineas_ruta[i] <> lineas_ruta[i+1] THEN 1 ELSE 0 END AS cambio
\* (Cypher lists start at 0).
CambioMut(lineas_ruta, i) == IF lineas_ruta[i + 1] = lineas_ruta[i + 2] THEN 1 ELSE 0
Cambio(lineas_ruta, i) == IF lineas_ruta[i + 1] # lineas_ruta[i + 2] THEN 1 ELSE 0

\* length(path) AS num_estaciones
PathLengthMut(path) == Len(path.nodes)
PathLength(path) == Len(path.lineas)

\* The Cypher query of _calculate_routes_neo4j followed by .single(): the
\* rows it returns, none or one. MATCH yields the shortest path when both
\* stations exist and are joined; UNWIND makes one row per index of
\* range(0, size(lineas_ruta) - 2), no row when the range is empty; RETURN
\* aggregates the rows of a path with sum(cambio) and yields nothing when no
\* row is left.
RunRouteQueryMut(store, origen, destino) ==
  IF <<origen, destino>> \notin DOMAIN store.shortest
  THEN << [ruta |-> <<origen, destino>>, num_estaciones |-> 1,
           num_cambios_linea |-> 0, lineas_ruta |-> <<1>>] >>
  ELSE << [ruta |-> store.shortest[<<origen, destino>>].nodes,
           num_estaciones |-> PathLength(store.shortest[<<origen, destino>>]),
           num_cambios_linea |-> 0,
           lineas_ruta |-> store.shortest[<<origen, destino>>].lineas] >>
RunRouteQuery(store, origen, destino) ==
  IF <<origen, destino>> \notin DOMAIN store.shortest THEN <<>>
  ELSE LET path == store.shortest[<<origen, destino>>]
           lineas_ruta == path.lineas
           unwound == Range(0, Len(lineas_ruta) - 2)
           cambios == [r \in 1..Len(unwound) |-> Cambio(lineas_ruta, unwound[r])]
       IN IF unwound = <<>> THEN <<>>
          ELSE << [ruta |-> path.nodes,
                   num_estaciones |-> PathLength(path),
                   num_cambios_linea |-> SumSeq(cambios),
                   lineas_ruta |-> lineas_ruta] >>

\* rutas.append({...}): the RouteCandidate of a returned row.
RouteCandidateMut(campus, cercana, row) ==
  [campus |-> campus.nombre, universidad |-> campus.universidad,
   estacion_destino |-> cercana.nombre_estacion, rol_estacion |-> cercana.rol,
   minutos_andando |-> cercana.minutos_andando, ruta |-> row.ruta,
   num_estaciones |-> row.num_cambios_linea,
   num_cambios_linea |-> row.num_estaciones,
   lineas_usadas |-> {row.lineas_ruta[i] : i \in 1..Len(row.lineas_ruta)}]
RouteCandidate(campus, cercana, row) ==
  [campus |-> campus.nombre, universidad |-> campus.universidad,
   estacion_destino |-> cercana.nombre_estacion, rol_estacion |-> cercana.rol,
   minutos_andando |-> cercana.minutos_andando, ruta |-> row.ruta,
   num_estaciones |-> row.num_estaciones,
   num_cambios_linea |-> row.num_cambios_linea,
   lineas_usadas |-> {row.lineas_ruta[i] : i \in 1..Len(row.lineas_ruta)}]

\* The (campus, nearby station) pairs in the order of the two loops, the
\* stations without a name left out (continue).
RECURSIVE FlattenSeq(_)
FlattenSeq(ss) == IF ss = <<>> THEN <<>> ELSE Head(ss) \o FlattenSeq(Tail(ss))

DiscoveryPairs(campus_list) ==
  FlattenSeq([c \in 1..Len(campus_list) |->
    SelectSeq([e \in 1..Len(campus_list[c].estaciones_cercanas) |->
                 [campus |-> campus_list[c], cercana |-> campus_list[c].estaciones_cercanas[e]]],
              LAMBDA pr : Truthy(pr.cercana.nombre_estacion))])

\* key=lambda x: (x["num_cambios_linea"], x["num_estaciones"])
RouteKeyMut(x) == <<x.num_estaciones, x.num_cambios_linea>>
RouteKey(x) == <<x.num_cambios_linea, x.num_estaciones>>

\* Order of Python tuples of two integers.
TupleLE(a, b) == a[1] < b[1] \/ (a[1] = b[1] /\ a[2] <= b[2])

\* list.sort(key=...) is stable: an element goes after the elements whose
\* key is not greater.
RECURSIVE InsertRutaMut(_, _)
RECURSIVE InsertRuta(_, _)
InsertRutaMut(sorted, x) ==
  IF sorted = <<>> THEN <<x>>
  ELSE IF RouteKey(Head(sorted)) # RouteKey(x) /\ TupleLE(RouteKey(Head(sorted)), RouteKey(x))
       THEN <<Head(sorted)>> \o InsertRutaMut(Tail(sorted), x)
       ELSE <<x>> \o sorted
InsertRuta(sorted, x) ==
  IF sorted = <<>> THEN <<x>>
  ELSE IF TupleLE(RouteKey(Head(sorted)), RouteKey(x))
       THEN <<Head(sorted)>> \o InsertRuta(Tail(sorted), x)
       ELSE <<x>> \o sorted

RECURSIVE SortRutas(_)
SortRutas(rutas) ==
  IF rutas = <<>> THEN <<>>
  ELSE Bind(SortRutas(SubSeq(rutas, 1, Len(rutas) - 1)), LAMBDA sorted :
         InsertRuta(sorted, rutas[Len(rutas)]))

\* The candidates in discovery order: the query of pair i raises when i is
\* in run_faults, and the pair is then left out (except Exception).
DiscoveredRutas(store, estacion_origen, campus_list, run_faults) ==
  Bind(DiscoveryPairs(campus_list), LAMBDA pairs :
    FlattenSeq([i \in 1..Len(pairs) |->
      IF i \in run_faults THEN <<>>
      ELSE Bind(RunRouteQuery(store, estacion_origen, pairs[i].cercana.nombre_estacion),
                LAMBDA rows :
                  IF rows = <<>> THEN <<>>
                  ELSE <<RouteCandidate(pairs[i].campus, pairs[i].cercana, rows[1])>>)]))

\* rutas = []: the list starts empty on every call, whatever a call before
\* it computed.
NewRutasMut(earlier) == earlier
NewRutas(earlier) == <<>>

\* MetroCampusRecommender._calculate_routes_neo4j, once the session is open.
CalculateRoutesNeo4j(store, estacion_origen, campus_list, run_faults, earlier) ==
  Bind(NewRutas(earlier) \o DiscoveredRutas(store, estacion_origen, campus_list, run_faults),
       LAMBDA rutas : SortRutas(rutas))

\* if estudio: ...
SearchesCampus(estudio) == Truthy(estudio)

\* if estacion_origen and context["campus"]: ...
CalculatesRoutesMut(estacion_origen, campus) == Truthy(estacion_origen)
CalculatesRoutes(estacion_origen, campus) == Truthy(estacion_origen) /\ campus # <<>>

\* MetroCampusRecommender._extract_sources
Source(store, n) == [store |-> store, n |-> n]
ExtractSourcesMut(context_data) ==
  <<Source("MongoDB", Len(context_data.campus)), Source("Neo4j", Len(context_data.rutas))>>
ExtractSources(context_data) ==
  (IF context_data.campus # <<>> THEN <<Source("MongoDB", Len(context_data.campus))>> ELSE <<>>)
  \o (IF context_data.rutas # <<>> THEN <<Source("Neo4j", Len(context_data.rutas))>> ELSE <<>>)

\* ------------------------------------------------------------------------
\* Phase 3: prompts
\* ------------------------------------------------------------------------

\* dict.get(key, default): the default only when the key is absent.
DictGet(d, key, default) == IF key \in DOMAIN d THEN d[key] ELSE default

\* f"{x}" of an optional string.
PyStr(x) == IF x = NoneVal THEN PyNone ELSE x

\* context_data["rutas"][:3]
TopRutas == 3
TakeMut(s, n) == s
Take(s, n) == SubSeq(s, 1, IF Len(s) < n THEN Len(s) ELSE n)

\* The prompt of baseline_llm: a fixed template around the query.
BaselinePrompt(query) == [kind |-> "baseline", query |-> query]

\* MetroCampusRecommender._build_augmented_prompt: the template's sections
\* with the values it interpolates.
BuildAugmentedPromptMut(original_query, entities, context_data) ==
  [kind |-> "augmented",
   query |-> original_query,
   estacion_origen |-> PyStr(DictGet(entities, "estacion_origen", NoEspecificada)),
   estudio |-> PyStr(DictGet(entities, "estudio", NoEspecificado)),
   campus |-> context_data.campus,
   no_campus |-> FALSE,
   rutas_desde |-> PyStr(DictGet(entities, "estacion_origen", OrigenPlaceholder)),
   rutas |-> Take(context_data.rutas, TopRutas),
   no_rutas |-> context_data.rutas = <<>>]
BuildAugmentedPrompt(original_query, entities, context_data) ==
  [kind |-> "augmented",
   query |-> original_query,
   estacion_origen |-> PyStr(DictGet(entities, "estacion_origen", NoEspecificada)),
   estudio |-> PyStr(DictGet(entities, "estudio", NoEspecificado)),
   campus |-> context_data.campus,
   no_campus |-> context_data.campus = <<>>,
   rutas_desde |-> PyStr(DictGet(entities, "estacion_origen", OrigenPlaceholder)),
   rutas |-> Take(context_data.rutas, TopRutas),
   no_rutas |-> context_data.rutas = <<>>]

SeqSet(s) == {s[i] : i \in 1..Len(s)}

\* The texts a prompt interpolates into its template. The fixed text of the
\* two templates holds none of the words MockProvider looks for, and numbers
\* hold no letters.
PromptTexts(prompt) ==
  IF prompt.kind = "baseline" THEN {prompt.query}
  ELSE {prompt.query, prompt.estacion_origen, prompt.estudio, prompt.rutas_desde}
       \cup UNION {{c.nombre, c.universidad}
                   \cup UNION {{e.nombre, e.tipo} : e \in SeqSet(c.estudios)} :
                   c \in SeqSet(prompt.campus)}
       \cup UNION {{r.campus, r.universidad, r.estacion_destino, r.rol_estacion}
                   \cup SeqSet(r.ruta) : r \in SeqSet(prompt.rutas)}

\* word in prompt.lower()
PromptHas(prompt, word) == \E t \in PromptTexts(prompt) : ContainsCI(t, word)

\* ------------------------------------------------------------------------
\* Phase 4: generation providers (llm_interface.py)
\* ------------------------------------------------------------------------

\* "mock": MockProvider. "remote": OpenAIProvider, AnthropicProvider and
\* LocalProvider, whose generate wraps the client call in try/except.
\* "custom": any other implementation of LLMInterface handed to the
\* orchestrator, whose generate the interface does not constrain.
Providers == {"mock", "remote", "custom"}

\* What the provider's client does on a call. MockProvider has no client.
Outcomes == {"ok", "fails"}
OutcomesOf(provider) == IF provider = "mock" THEN {"ok"} ELSE Outcomes

Response(kind, n) == [kind |-> kind, n |-> n]

\* MockProvider.generate, after self.call_count += 1.
MockGenerate(prompt, call_count) ==
  IF PromptHas(prompt, K_baseline) \/ PromptHas(prompt, K_sin_contexto)
  THEN Response("mock_baseline", 0)
  ELSE IF PromptHas(prompt, K_graphrag) \/ PromptHas(prompt, K_contexto)
       THEN Response("mock_graphrag", 0)
       ELSE Response("mock_default", call_count)

\* except Exception as e: return f"ERROR: {str(e)}"
RemoteFailure == [raised |-> FALSE, response |-> Response("error", 0)]

\* provider.generate(prompt, temperature=0.3): whether the call raises, and
\* the text it returns otherwise.
Generate(provider, prompt, call_count, outcome) ==
  CASE provider = "mock" ->
         [raised |-> FALSE, response |-> MockGenerate(prompt, call_count + 1)]
    [] provider = "remote" ->
         IF outcome = "ok" THEN [raised |-> FALSE, response |-> Response("text", 0)]
         ELSE RemoteFailure
    [] provider = "custom" ->
         IF outcome = "ok" THEN [raised |-> FALSE, response |-> Response("text", 0)]
         ELSE [raised |-> TRUE, response |-> Response("none", 0)]

\* ------------------------------------------------------------------------
\* Scoring of the benchmark harness (evaluate.py)
\* ------------------------------------------------------------------------

\* str(n) and int(s) of a natural number.
DigitSeq == <<"0","1","2","3","4","5","6","7","8","9">>
DigitSet == {DigitSeq[d] : d \in 1..Len(DigitSeq)}
DigitValue == [c \in DigitSet |-> (CHOOSE d \in 1..Len(DigitSeq) : DigitSeq[d] = c) - 1]

RECURSIVE IntStr(_)
IntStr(n) ==
  IF n < 10 THEN <<DigitSeq[n + 1]>>
  ELSE IntStr(n \div 10) \o <<DigitSeq[(n % 10) + 1]>>

RECURSIVE StrInt(_)
StrInt(s) ==
  IF s = <<>> THEN 0
  ELSE 10 * StrInt(SubSeq(s, 1, Len(s) - 1)) + DigitValue[s[Len(s)]]

\* The texts of MockProvider.generate.
R_mock_baseline ==
  <<"P","a","r","a"," ","l","l","e","g","a","r"," ","d","e","s","d","e"," ","S","o","l"," ","h","a","s","t","a"," ","u","n"," ","c","a","m","p","u","s"," ","c","o","n"," ","M","á","s","t","e","r"," ","e","n"," ","I","n","t","e","l","i","g","e","n","c","i","a"," ","A","r","t","i","f","i","c","i","a","l",",","\n","p","u","e","d","e","s"," ","t","o","m","a","r"," ","l","a"," ","L","í","n","e","a"," ","6"," ","h","a","s","t","a"," ","C","i","u","d","a","d"," ","U","n","i","v","e","r","s","i","t","a","r","i","a",","," ","d","o","n","d","e"," ","l","a"," ","U","C","M"," ","o","f","r","e","c","e"," ","e","s","t","e"," ","p","r","o","g","r","a","m","a",".","\n","E","l"," ","t","r","a","y","e","c","t","o"," ","e","s"," ","d","i","r","e","c","t","o"," ","y"," ","t","a","r","d","a"," ","a","p","r","o","x","i","m","a","d","a","m","e","n","t","e"," ","2","0"," ","m","i","n","u","t","o","s",".">>
R_mock_graphrag ==
  <<"B","a","s","á","n","d","o","m","e"," ","e","n"," ","l","o","s"," ","d","a","t","o","s"," ","p","r","o","p","o","r","c","i","o","n","a","d","o","s",":","\n","\n","*","*","M","e","j","o","r"," ","o","p","c","i","ó","n",":"," ","C","i","u","d","a","d"," ","U","n","i","v","e","r","s","i","t","a","r","i","a"," ","(","U","C","M",")","*","*","\n","-"," ","R","u","t","a",":"," ","S","o","l"," ","→"," ","C","u","a","t","r","o"," ","C","a","m","i","n","o","s"," ","(","L","1",")"," ","→"," ","T","r","a","n","s","b","o","r","d","o"," ","→"," ","C","i","u","d","a","d"," ","U","n","i","v","e","r","s","i","t","a","r","i","a"," ","(","L","6",")","\n","-"," ","D","i","s","t","a","n","c","i","a",":"," ","8"," ","e","s","t","a","c","i","o","n","e","s","\n","-"," ","T","r","a","n","s","b","o","r","d","o","s",":"," ","1"," ","(","e","n"," ","C","u","a","t","r","o"," ","C","a","m","i","n","o","s",")","\n","-"," ","T","i","e","m","p","o"," ","e","s","t","i","m","a","d","o",":"," ","2","2"," ","m","i","n","u","t","o","s","\n","-"," ","E","s","t","u","d","i","o","s",":"," ","M","á","s","t","e","r"," ","e","n"," ","I","n","t","e","l","i","g","e","n","c","i","a"," ","A","r","t","i","f","i","c","i","a","l"," ","(","6","0"," ","E","C","T","S",")","\n","\n","*","*","A","l","t","e","r","n","a","t","i","v","a",":"," ","C","a","m","p","u","s"," ","d","e"," ","M","o","n","c","l","o","a"," ","(","U","P","M",")","*","*","\n","-"," ","R","u","t","a",":"," ","S","o","l"," ","→"," ","C","a","l","l","a","o"," ","(","L","3",")"," ","→"," ","M","o","n","c","l","o","a","\n","-"," ","D","i","s","t","a","n","c","i","a",":"," ","6"," ","e","s","t","a","c","i","o","n","e","s","\n","-"," ","T","r","a","n","s","b","o","r","d","o","s",":"," ","0","\n","-"," ","T","i","e","m","p","o"," ","e","s","t","i","m","a","d","o",":"," ","1","5"," ","m","i","n","u","t","o","s">>
R_mock_llamada ==
  <<"[","M","O","C","K","]"," ","R","e","s","p","u","e","s","t","a"," ","s","i","m","u","l","a","d","a"," ","p","a","r","a"," ","p","r","u","e","b","a","s"," ","(","l","l","a","m","a","d","a"," ","#">>
R_error ==
  <<"E","R","R","O","R",":"," ">>
R_timeout ==
  <<"R","e","q","u","e","s","t"," ","t","i","m","e","d"," ","o","u","t",".">>

\* Texts a language model may answer with.
A_Moncloa ==
  <<"D","e","s","d","e"," ","S","o","l"," ","v","e"," ","a","l"," ","C","a","m","p","u","s"," ","d","e"," ","M","o","n","c","l","o","a"," ","(","U","P","M",")",","," ","c","o","n"," ","1"," ","t","r","a","n","s","b","o","r","d","o">>
A_CiudadUniversitaria ==
  <<"D","e","s","d","e"," ","S","o","l"," ","t","e"," ","r","e","c","o","m","i","e","n","d","o"," ","C","i","u","d","a","d"," ","U","n","i","v","e","r","s","i","t","a","r","i","a"," ","(","U","C","M",")">>
A_Sur ==
  <<"V","e"," ","a","l"," ","C","a","m","p","u","s"," ","S","u","r"," ","(","U","P","M",")",","," ","p","r","o","b","a","b","l","e","m","e","n","t","e"," ","d","i","r","e","c","t","o">>
LlmTexts == {A_Moncloa, A_CiudadUniversitaria, A_Sur}

\* The text a provider returned: a returned value of generate as a string.
\* The text of a language model is the model's own choice.
ResponseText(response, text) ==
  CASE response.kind = "mock_baseline" -> R_mock_baseline
    [] response.kind = "mock_graphrag" -> R_mock_graphrag
    [] response.kind = "mock_default" -> R_mock_llamada \o IntStr(response.n) \o <<")">>
    [] response.kind = "error" -> R_error \o R_timeout
    [] response.kind = "text" -> text

\* Literals of validate_route and detect_hallucinations_graphrag.
L_transbordo ==
  <<"t","r","a","n","s","b","o","r","d","o">>
L_cambio ==
  <<"c","a","m","b","i","o">>
L_linea ==
  <<"l","i","n","e","a">>
L_linea_acc ==
  <<"l","í","n","e","a">>
L_sin ==
  <<"s","i","n">>
L_sin_transbordo ==
  <<"s","i","n"," ","t","r","a","n","s","b","o","r","d","o">>
L_directo ==
  <<"d","i","r","e","c","t","o">>
L_campus ==
  <<"c","a","m","p","u","s">>
H_no_tengo ==
  <<"n","o"," ","t","e","n","g","o"," ","i","n","f","o","r","m","a","c","i","ó","n">>
H_no_puedo ==
  <<"n","o"," ","p","u","e","d","o"," ","c","o","n","f","i","r","m","a","r">>
H_no_estoy ==
  <<"n","o"," ","e","s","t","o","y"," ","s","e","g","u","r","o">>
H_puede_que ==
  <<"p","u","e","d","e"," ","q","u","e">>
H_probablemente ==
  <<"p","r","o","b","a","b","l","e","m","e","n","t","e">>
N_Sur_UPM ==
  <<"C","a","m","p","u","s"," ","S","u","r"," ","(","U","P","M",")">>
N_Leganes_UC3M ==
  <<"C","a","m","p","u","s"," ","d","e"," ","L","e","g","a","n","é","s"," ","(","U","C","3","M",")">>

\* The pattern lit1\s+lit2\s+... matches somewhere in the text.
FindsLits(s, lits) == \E p \in 1..Len(s) : AfterLits(s, p, lits) # 0

\* re.findall(r"(\d+)\s*transbordo", s)[0]: the digits of the leftmost
\* match, <<>> when there is none. \d+ is greedy and is followed by
\* whitespace or by the literal, so a match takes the digit run to its end.
DigitsFrom(s, p) ==
  CHOOSE k \in 0..(Len(s) - p + 1) :
    /\ \A j \in 0..(k - 1) : s[p + j] \in DigitSet
    /\ (p + k > Len(s) \/ s[p + k] \notin DigitSet)

TransbordoDigitsAt(s, p) ==
  \E k \in {DigitsFrom(s, p)} :
    /\ k >= 1
    /\ \E w \in {SpacesFrom(s, p + k)} : LitAt(s, p + k + w, L_transbordo)

FirstTransbordoDigits(s) ==
  Bind(Min0({p \in 1..Len(s) : TransbordoDigitsAt(s, p)}), LAMBDA p :
    IF p = 0 THEN <<>> ELSE SubSeq(s, p, p + DigitsFrom(s, p) - 1))

\* The loop over transbordo_patterns: every pattern that matches sets the
\* count, the later one last.
TransbordosMencionados(response_lower) ==
  \* "sin transbordo" in response_lower or "directo" in response_lower
  LET none == Contains(response_lower, L_sin_transbordo) \/ Contains(response_lower, L_directo)
      digits == FirstTransbordoDigits(response_lower)
      v1 == IF digits # <<>> THEN (IF none THEN 0 ELSE StrInt(digits)) ELSE 0
      v2 == IF FindsLits(response_lower, <<L_cambio, L_de, L_linea>>)
               \/ FindsLits(response_lower, <<L_cambio, L_de, L_linea_acc>>)
            THEN (IF none THEN 0 ELSE 1) ELSE v1
      v3 == IF FindsLits(response_lower, <<L_sin, L_transbordo>>)
            THEN (IF none THEN 0 ELSE 1) ELSE v2
      v4 == IF Contains(response_lower, L_directo) THEN (IF none THEN 0 ELSE 1) ELSE v3
  IN v4

hallucination_indicators == <<H_no_tengo, H_no_puedo, H_no_estoy, H_puede_que, H_probablemente>>

\* challenge["expected"], as far as validate_route reads it.
Expected(estacion_origen, campus_validos) ==
  [estacion_origen |-> estacion_origen, campus_validos |-> campus_validos]

\* EvaluationMetrics.validate_route
ValidateRoute(response, expected) ==
  Bind(Lower(response), LAMBDA response_lower :
    Bind(/\ Truthy(expected.estacion_origen)
         /\ Contains(response_lower, Lower(expected.estacion_origen)), LAMBDA found_correct_origin :
    Bind(\E c \in 1..Len(expected.campus_validos) :
           Contains(response_lower, Lower(expected.campus_validos[c])), LAMBDA found_correct_campus :
      [is_valid |-> found_correct_origin /\ found_correct_campus,
       found_correct_origin |-> found_correct_origin,
       found_correct_campus |-> found_correct_campus,
       num_transbordos_mencionados |-> TransbordosMencionados(response_lower),
       hallucinations_detected |->
         SelectSeq(hallucination_indicators, LAMBDA h : Contains(response_lower, h))])))

\* Length of the run of characters of [A-ZÁ-Úa-záéíóúñ\s] that starts at p.
ClassRun(s, p) ==
  CHOOSE k \in 0..(Len(s) - p + 1) :
    /\ \A j \in 0..(k - 1) : s[p + j] \in LetterOrSpace
    /\ (p + k > Len(s) \/ s[p + k] \notin LetterOrSpace)

\* campus\s+(?:de\s+)?([A-ZÁ-Úa-záéíóúñ\s]+) with re.IGNORECASE at position
\* p: the start and the end (exclusive) of the group, <<0, 0>> when the
\* pattern does not match there. The quantifiers are greedy; when the group
\* finds no character after the whitespace, the engine gives the last
\* whitespace character back to it, and gives up "de" when that cannot be.
CampusMentionAt(s, p) ==
  IF ~LitAt(s, p, L_campus) THEN <<0, 0>>
  ELSE Bind(SpacesFrom(s, p + Len(L_campus)), LAMBDA k :
    IF k = 0 THEN <<0, 0>>
    ELSE Bind(p + Len(L_campus) + k, LAMBDA q :
      Bind(IF LitAt(s, q, L_de) THEN SpacesFrom(s, q + Len(L_de)) ELSE 0, LAMBDA m :
        IF m >= 1
        THEN Bind(q + Len(L_de) + m, LAMBDA r :
               IF ClassRun(s, r) >= 1 THEN <<r, r + ClassRun(s, r)>>
               ELSE IF m >= 2 THEN <<r - 1, r>>
               ELSE <<q, r>>)
        ELSE IF ClassRun(s, q) >= 1 THEN <<q, q + ClassRun(s, q)>>
             ELSE IF k >= 2 THEN <<q - 1, q>>
             ELSE <<0, 0>>)))

\* re.findall(pattern, response, re.IGNORECASE): the groups of the matches,
\* from left to right, each search starting where the match before ended.
RECURSIVE CampusMencionados(_, _)
CampusMencionados(s, p) ==
  Bind(Min0({x \in p..Len(s) : CampusMentionAt(s, x) # <<0, 0>>}), LAMBDA x :
    IF x = 0 THEN <<>>
    ELSE Bind(CampusMentionAt(s, x), LAMBDA m :
           <<SubSeq(s, m[1], m[2] - 1)>> \o CampusMencionados(s, m[2])))

\* if len(campus_clean) > 3: the shortest name the check looks at.
MinCampusLen == 3

\* EvaluationMetrics.detect_hallucinations_graphrag: the mentions it flags.
DetectHallucinationsGraphrag(response, context_data) ==
  Bind({Lower(context_data.campus[c].nombre) : c \in 1..Len(context_data.campus)},
       LAMBDA campus_reales :
    SelectSeq(CampusMencionados(response, 1), LAMBDA campus_mencionado :
      \E campus_clean \in {Lower(Strip(campus_mencionado))} :
        /\ campus_clean # <<>>
        /\ ~\E real \in campus_reales : Contains(real, campus_clean)
        /\ Len(campus_clean) > MinCampusLen))

\* a / b of Python for the counts of the summary, kept as a fraction; the
\* conditional expressions around the divisions give 0 when b is 0.
RatioMut(a, b) == [num |-> a, den |-> b]
Ratio(a, b) == IF b > 0 THEN [num |-> a, den |-> b] ELSE [num |-> 0, den |-> 1]

Count(s, Test(_)) == Len(SelectSeq(s, Test))

\* EvaluationMetrics.calculate_success_rate
CalculateSuccessRate(rs) ==
  [baseline_success_rate |-> Ratio(Count(rs, LAMBDA r : r.baseline_metrics.is_valid), Len(rs)),
   graphrag_success_rate |-> Ratio(Count(rs, LAMBDA r : r.graphrag_metrics.is_valid), Len(rs)),
   total_queries |-> Len(rs)]

\* BenchmarkEvaluator._calculate_avg_transbordos
CalculateAvgTransbordos(rs, method) ==
  LET valid == SelectSeq(rs, LAMBDA r : IF method = "baseline" THEN r.baseline_metrics.is_valid
                                        ELSE r.graphrag_metrics.is_valid)
      transbordos == [t \in 1..Len(valid) |->
                        IF method = "baseline"
                        THEN valid[t].baseline_metrics.num_transbordos_mencionados
                        ELSE valid[t].graphrag_metrics.num_transbordos_mencionados]
  IN Ratio(SumSeq(transbordos), Len(transbordos))

\* ------------------------------------------------------------------------
\* The orchestrator
\* ------------------------------------------------------------------------

\* Most generate calls a MockProvider answers: its call_count grows with
\* every call.
MaxCalls == 2

VARIABLES
  mongo,          \* contents of db.campus
  neo4j,          \* contents of the graph store and its shortest-path answers
  llm,            \* self.llm: the kind of provider, "unset" until __init__ assigns it
  mongo_client,   \* self.mongo_client: "unset", "open" or "closed"
  neo4j_driver,   \* self.neo4j_driver: "unset", "open" or "closed"
  call_count,     \* MockProvider.call_count
  op,             \* operation called last: "none", "baseline", "graphrag", "compare"
  pc,             \* where it stands: "new" before construction, "failed" after a failed
                  \* one, "idle", "baseline", "extract", "retrieve", "augment", "generate",
                  \* "closed" after close()
  query,          \* its argument
  entities,       \* locals of graphrag_recommendation
  context_data,
  augmented_prompt,
  baseline_result, \* local of compare_methods
  calls,          \* capability calls of the operation, in order
  faults,         \* capability failures met by the operation
  result,         \* what the operation returned, NoResult until it returns
  raised,         \* the exception the operation let through, "" if none
  previous,       \* query and context of the latest earlier graphrag run that met no store failure
  prompts,        \* the prompts the operation passed to generate, in order
  bpc,            \* where run_benchmark stands: "none" while it is not running, "loop", "done"
  queries,        \* its argument: the benchmark items
  processed,      \* the number of items its loop has been through
  results,        \* its local list of scored items
  benchmark_results, \* what it returned, NoBenchmark until it returns
  failed,         \* the ids of the items whose processing raised, in this run
  earlier         \* what the run before this one returned, NoBenchmark if none

vars == <<mongo, neo4j, llm, mongo_client, neo4j_driver, call_count, op, pc, query,
          entities, context_data, augmented_prompt, baseline_result, calls, faults,
          result, raised, previous, prompts,
          bpc, queries, processed, results, benchmark_results, failed, earlier>>

\* The variables of BenchmarkEvaluator.run_benchmark.
harness == <<bpc, queries, processed, results, benchmark_results, failed, earlier>>

NoEntities == [estacion_origen |-> NoneVal, estudio |-> NoneVal]
NoContext == [campus |-> <<>>, rutas |-> <<>>, estacion_origen |-> NoneVal, estudio_buscado |-> NoneVal]
NoPrompt == [kind |-> "none"]
NoResult == [method |-> "none"]
NoPrevious == [query |-> NoneVal, context |-> NoContext]
NoBenchmark == [results |-> <<>>]

StoreFaults == {"mongo", "session", "run"}

\* Before MetroCampusRecommender(...) is called: the stores have their
\* contents, no attribute of the object is set.
Init ==
  /\ mongo \in CampusCollections
  /\ neo4j \in GraphStores
  /\ llm = "unset"
  /\ mongo_client = "unset"
  /\ neo4j_driver = "unset"
  /\ call_count = 0
  /\ op = "none"
  /\ pc = "new"
  /\ query = <<>>
  /\ entities = NoEntities
  /\ context_data = NoContext
  /\ augmented_prompt = NoPrompt
  /\ baseline_result = NoResult
  /\ calls = <<>>
  /\ faults = {}
  /\ result = NoResult
  /\ raised = ""
  /\ previous = NoPrevious
  /\ prompts = <<>>
  /\ bpc = "none"
  /\ queries = <<>>
  /\ processed = 0
  /\ results = <<>>
  /\ benchmark_results = NoBenchmark
  /\ failed = {}
  /\ earlier = NoBenchmark

stores == <<mongo, neo4j, llm, mongo_client, neo4j_driver>>
locals == <<entities, context_data, augmented_prompt>>

\* MetroCampusRecommender._connect_databases: the exception it raises, ""
\* when both connection checks pass. The check of the graph store is made
\* only after the check of the document store has passed.
ConnectDatabasesMut(mongo_up, neo4j_up) ==
  IF ~mongo_up THEN "ConnectionError" ELSE ""
ConnectDatabases(mongo_up, neo4j_up) ==
  IF ~mongo_up \/ ~neo4j_up THEN "ConnectionError" ELSE ""

\* MetroCampusRecommender.__init__ with the provider the caller passes (a
\* MockProvider is created when none is passed). An exception of
\* _connect_databases ends the constructor before self.llm is assigned, and
\* the caller gets no object.
Construct(provider, mongo_up, neo4j_up) ==
  /\ pc = "new"
  /\ op' = "init"
  /\ mongo_client' = "open"
  /\ neo4j_driver' = IF mongo_up THEN "open" ELSE neo4j_driver
  /\ calls' = <<"mongo.server_info">> \o (IF mongo_up THEN <<"neo4j.verify">> ELSE <<>>)
  /\ faults' = (IF ~mongo_up THEN {"mongo.server_info"} ELSE {})
                \cup (IF mongo_up /\ ~neo4j_up THEN {"neo4j.verify"} ELSE {})
  /\ raised' = ConnectDatabases(mongo_up, neo4j_up)
  /\ IF ConnectDatabases(mongo_up, neo4j_up) = ""
     THEN llm' = provider /\ pc' = "idle"
     ELSE llm' = llm /\ pc' = "failed"
  /\ UNCHANGED <<harness, mongo, neo4j, call_count, query, locals, baseline_result, result,
                 previous, prompts>>

\* MetroCampusRecommender.close: the two close calls in order, with no
\* handler around either. An exception of the first leaves the second
\* undone.
Close(mongo_close_raises, neo4j_close_raises) ==
  /\ pc = "idle"
  /\ op' = "close"
  /\ pc' = "closed"
  /\ query' = <<>>
  /\ result' = NoResult
  /\ prompts' = <<>>
  /\ mongo_client' = IF mongo_close_raises THEN mongo_client ELSE "closed"
  /\ neo4j_driver' = IF mongo_close_raises \/ neo4j_close_raises THEN neo4j_driver ELSE "closed"
  /\ calls' = <<"mongo.close">> \o (IF mongo_close_raises THEN <<>> ELSE <<"neo4j.close">>)
  /\ faults' = (IF mongo_close_raises THEN {"mongo.close"} ELSE {})
                \cup (IF ~mongo_close_raises /\ neo4j_close_raises THEN {"neo4j.close"} ELSE {})
  /\ raised' = IF mongo_close_raises THEN "mongo.close"
               ELSE IF neo4j_close_raises THEN "neo4j.close" ELSE ""
  /\ UNCHANGED <<harness, mongo, neo4j, llm, call_count, locals, baseline_result, previous>>

\* The context inside a result of graphrag_recommendation or compare_methods.
ReturnsContext(r) == r.method \in {"graphrag", "compare"}
ReturnedContext(r) == IF r.method = "compare" THEN r.graphrag.context ELSE r.context

\* generate calls of an operation.
Generations(o) == IF o = "compare" THEN 2 ELSE 1

\* A caller invokes baseline_llm, graphrag_recommendation or compare_methods.
Call(o, q) ==
  /\ pc = "idle"
  /\ llm = "mock" => call_count + Generations(o) <= MaxCalls
  /\ previous' = IF ReturnsContext(result) /\ faults \cap StoreFaults = {}
                 THEN [query |-> query, context |-> ReturnedContext(result)]
                 ELSE previous
  /\ op' = o
  /\ query' = q
  /\ pc' = IF o = "graphrag" THEN "extract" ELSE "baseline"
  /\ entities' = NoEntities
  /\ context_data' = NoContext
  /\ augmented_prompt' = NoPrompt
  /\ baseline_result' = NoResult
  /\ calls' = <<>>
  /\ faults' = {}
  /\ result' = NoResult
  /\ raised' = ""
  /\ prompts' = <<>>
  /\ UNCHANGED <<harness, stores, call_count>>

BaselineResultMut(q, response) ==
  [method |-> "baseline", query |-> q, response |-> response,
   context_used |-> NoneVal, sources |-> <<Source("MongoDB", 1)>>]
BaselineResult(q, response) ==
  [method |-> "baseline", query |-> q, response |-> response,
   context_used |-> NoneVal, sources |-> <<>>]

\* baseline_llm, called directly or as the first step of compare_methods.
\* An exception of generate is not caught: it ends the operation.
BaselineLlm(outcome) ==
  /\ pc = "baseline"
  /\ \E g \in {Generate(llm, BaselinePrompt(query), call_count, outcome)} :
     /\ call_count' = IF llm = "mock" THEN call_count + 1 ELSE call_count
     /\ calls' = Append(calls, "llm.generate")
     /\ prompts' = Append(prompts, BaselinePrompt(query))
     /\ faults' = IF outcome = "fails" THEN faults \cup {"generate"} ELSE faults
     /\ IF g.raised
        THEN /\ raised' = "generate"
             /\ pc' = "idle"
             /\ UNCHANGED <<result, baseline_result>>
        ELSE IF op = "compare"
             THEN /\ baseline_result' = BaselineResult(query, g.response)
                  /\ pc' = "extract"
                  /\ UNCHANGED <<result, raised>>
             ELSE /\ result' = BaselineResult(query, g.response)
                  /\ pc' = "idle"
                  /\ UNCHANGED <<baseline_result, raised>>
  /\ UNCHANGED <<harness, stores, op, query, locals, previous>>

\* FASE 1: _extract_entities
Extract ==
  /\ pc = "extract"
  /\ entities' = Extracted[query]
  /\ pc' = "retrieve"
  /\ UNCHANGED <<harness, stores, call_count, op, query, context_data, augmented_prompt,
                 baseline_result, calls, faults, result, raised, previous, prompts>>

\* The failures the stores may show during _retrieve_context: the campus
\* lookup may raise (mongo_fault); opening the graph session may raise
\* (session_fault); the queries of the pairs in run_faults raise.
CampusOf(ents, mongo_fault) ==
  IF SearchesCampus(ents.estudio)
  THEN SearchCampusMongodb(mongo, ents.estudio, mongo_fault) ELSE <<>>

MongoFaultsNow ==
  IF SearchesCampus(entities.estudio)
  THEN MongoFaults(Len(MongoFind(mongo, entities.estudio))) ELSE {NoFault}

SessionFaultsNow(mongo_fault) ==
  IF CalculatesRoutes(entities.estacion_origen, CampusOf(entities, mongo_fault))
  THEN BOOLEAN ELSE {FALSE}

RunFaultsNow(mongo_fault, session_fault) ==
  IF CalculatesRoutes(entities.estacion_origen, CampusOf(entities, mongo_fault)) /\ ~session_fault
  THEN SUBSET (1..Len(DiscoveryPairs(CampusOf(entities, mongo_fault)))) ELSE {{}}

\* FASE 2: _retrieve_context. An exception of the session is caught by no
\* handler: it ends the operation.
Retrieve(mongo_fault, session_fault, run_faults) ==
  /\ pc = "retrieve"
  /\ \E estudio \in {DictGet(entities, "estudio", NoneVal)},
        estacion_origen \in {DictGet(entities, "estacion_origen", NoneVal)} :
     \E campus \in {IF SearchesCampus(estudio)
                    THEN SearchCampusMongodb(mongo, estudio, mongo_fault) ELSE <<>>} :
     \E routes \in {CalculatesRoutes(estacion_origen, campus)} :
     \E rutas \in {IF routes /\ ~session_fault
                   THEN CalculateRoutesNeo4j(neo4j, estacion_origen, campus, run_faults,
                                             previous.context.rutas)
                   ELSE <<>>} :
     /\ calls' = calls
                 \o (IF SearchesCampus(estudio)
                     THEN <<"mongo.find">> \o [i \in 1..HandedOut(mongo, estudio, mongo_fault) |-> "mongo.next"]
                     ELSE <<>>)
                 \o (IF routes THEN <<"neo4j.session">> ELSE <<>>)
                 \o (IF routes /\ ~session_fault
                     THEN [i \in 1..Len(DiscoveryPairs(campus)) |-> "neo4j.run"] ELSE <<>>)
     /\ faults' = faults
                  \cup (IF mongo_fault.raises THEN {"mongo"} ELSE {})
                  \cup (IF session_fault THEN {"session"} ELSE {})
                  \cup (IF run_faults # {} THEN {"run"} ELSE {})
     /\ IF session_fault
        THEN /\ raised' = "session"
             /\ pc' = "idle"
             /\ entities' = NoEntities
             /\ baseline_result' = NoResult
             /\ UNCHANGED context_data
        ELSE /\ context_data' = [campus |-> campus, rutas |-> rutas,
                                 estacion_origen |-> estacion_origen,
                                 estudio_buscado |-> estudio]
             /\ pc' = "augment"
             /\ UNCHANGED <<raised, entities, baseline_result>>
  /\ UNCHANGED <<harness, stores, call_count, op, query, augmented_prompt, result, previous, prompts>>

\* FASE 3: _build_augmented_prompt
Augment ==
  /\ pc = "augment"
  /\ augmented_prompt' = BuildAugmentedPrompt(query, entities, context_data)
  /\ pc' = "generate"
  /\ UNCHANGED <<harness, stores, call_count, op, query, entities, context_data,
                 baseline_result, calls, faults, result, raised, previous, prompts>>

GraphragResult(q, ents, ctx, response) ==
  [method |-> "graphrag", query |-> q, entities |-> ents, context |-> ctx,
   response |-> response, sources |-> ExtractSources(ctx)]

CompareResult(q, b, g) ==
  [method |-> "compare", query |-> q, baseline |-> b, graphrag |-> g,
   comparison |-> [baseline_used_context |-> FALSE,
                   graphrag_used_context |-> Len(g.sources) > 0,
                   campus_found |-> Len(g.context.campus),
                   routes_calculated |-> Len(g.context.rutas)]]

\* FASE 4 and the return of graphrag_recommendation, and of compare_methods
\* when it is the caller. An exception of generate is not caught.
GenerateResponse(outcome) ==
  /\ pc = "generate"
  /\ \E g \in {Generate(llm, augmented_prompt, call_count, outcome)} :
     /\ call_count' = IF llm = "mock" THEN call_count + 1 ELSE call_count
     /\ calls' = Append(calls, "llm.generate")
     /\ prompts' = Append(prompts, augmented_prompt)
     /\ faults' = IF outcome = "fails" THEN faults \cup {"generate"} ELSE faults
     /\ IF g.raised
        THEN /\ raised' = "generate"
             /\ UNCHANGED result
        ELSE /\ result' = IF op = "compare"
                          THEN CompareResult(query, baseline_result,
                                 GraphragResult(query, entities, context_data, g.response))
                          ELSE GraphragResult(query, entities, context_data, g.response)
             /\ UNCHANGED raised
  /\ pc' = "idle"
  /\ entities' = NoEntities
  /\ context_data' = NoContext
  /\ augmented_prompt' = NoPrompt
  /\ baseline_result' = NoResult
  /\ UNCHANGED <<harness, stores, op, query, previous>>

Next ==
  \/ \E provider \in Providers, mongo_up \in BOOLEAN, neo4j_up \in BOOLEAN :
       Construct(provider, mongo_up, neo4j_up)
  \/ \E mongo_close_raises \in BOOLEAN, neo4j_close_raises \in BOOLEAN :
       Close(mongo_close_raises, neo4j_close_raises)
  \/ \E o \in {"baseline", "graphrag", "compare"}, q \in Queries : Call(o, q)
  \/ \E outcome \in OutcomesOf(llm) : BaselineLlm(outcome)
  \/ Extract
  \/ \E f \in MongoFaultsNow : \E s \in SessionFaultsNow(f) : \E r \in RunFaultsNow(f, s) :
       Retrieve(f, s, r)
  \/ Augment
  \/ \E outcome \in OutcomesOf(llm) : GenerateResponse(outcome)

Spec == Init /\ [][Next]_vars

\* ------------------------------------------------------------------------
\* The benchmark harness (evaluate.py): BenchmarkEvaluator.run_benchmark
\* ------------------------------------------------------------------------

\* A benchmark item, as far as run_benchmark reads it.
Challenge(id, q, expected, difficulty) ==
  [id |-> id, query |-> q, expected |-> expected, difficulty |-> difficulty]

\* CHALLENGE_QUERIES[0], and an item a caller passes in `queries`.
Challenge1 ==
  Challenge(1, QSolIA, Expected(S_Sol, <<N_CU_UCM, N_Moncloa_UPM, N_Leganes_UC3M, N_Sur_UPM>>),
            "medium")
ChallengeBigData ==
  Challenge(2, QTitle, Expected(S_Sol, <<N_Moncloa_UPM>>), "easy")

\* The item lists run_benchmark is called with.
ChallengeLists == { <<>>, <<Challenge1>>, <<Challenge1, ChallengeBigData>> }

Raises(name, count) == [raised |-> name, call_count |-> count, comparison |-> NoResult]

\* MetroCampusRecommender.compare_methods as one call: the exception it lets
\* through or the comparison it returns, and MockProvider.call_count after
\* it. session_fault: opening the graph session raises; outcome_b and
\* outcome_g: what the provider's client does on the two generate calls.
CompareMethods(q, session_fault, outcome_b, outcome_g) ==
  Bind(Generate(llm, BaselinePrompt(q), call_count, outcome_b), LAMBDA b :
    IF b.raised THEN Raises("generate", call_count)
    ELSE Bind(IF llm = "mock" THEN call_count + 1 ELSE call_count, LAMBDA count_b :
      Bind(Extracted[q], LAMBDA ents :
        Bind(CampusOf(ents, NoFault), LAMBDA campus :
          IF CalculatesRoutes(ents.estacion_origen, campus) /\ session_fault
          THEN Raises("session", count_b)
          ELSE Bind([campus |-> campus,
                     rutas |-> IF CalculatesRoutes(ents.estacion_origen, campus)
                               THEN CalculateRoutesNeo4j(neo4j, ents.estacion_origen, campus, {}, <<>>)
                               ELSE <<>>,
                     estacion_origen |-> ents.estacion_origen,
                     estudio_buscado |-> ents.estudio], LAMBDA ctx :
            Bind(Generate(llm, BuildAugmentedPrompt(q, ents, ctx), count_b, outcome_g), LAMBDA g :
              IF g.raised THEN Raises("generate", count_b)
              ELSE [raised |-> "",
                    call_count |-> IF llm = "mock" THEN count_b + 1 ELSE count_b,
                    comparison |-> CompareResult(q, BaselineResult(q, b.response),
                                     GraphragResult(q, ents, ctx, g.response))]))))))

\* The texts generate may have returned for a response.
TextsOf(response) == IF response.kind = "text" THEN LlmTexts ELSE {<<>>}

\* result = {...}: the entry of a scored item.
ScoredItem(challenge, comparison, baseline_response, graphrag_response) ==
  [challenge_id |-> challenge.id,
   query |-> challenge.query,
   difficulty |-> challenge.difficulty,
   expected |-> challenge.expected,
   baseline_response |-> baseline_response,
   graphrag_response |-> graphrag_response,
   baseline_metrics |-> ValidateRoute(baseline_response, challenge.expected),
   graphrag_metrics |-> ValidateRoute(graphrag_response, challenge.expected),
   graphrag_hallucinations |->
     DetectHallucinationsGraphrag(graphrag_response, comparison.graphrag.context),
   graphrag_context |-> [campus_found |-> Len(comparison.graphrag.context.campus),
                         routes_calculated |-> Len(comparison.graphrag.context.rutas)]]

\* benchmark_results["summary"]
Summary(rs) ==
  [success_rates |-> CalculateSuccessRate(rs),
   avg_transbordos_baseline |-> CalculateAvgTransbordos(rs, "baseline"),
   avg_transbordos_graphrag |-> CalculateAvgTransbordos(rs, "graphrag"),
   total_hallucinations_baseline |->
     SumSeq([r \in 1..Len(rs) |-> Len(rs[r].baseline_metrics.hallucinations_detected)]),
   total_hallucinations_graphrag |->
     SumSeq([r \in 1..Len(rs) |-> Len(rs[r].graphrag_hallucinations)])]

\* benchmark_results, without the timestamp of its metadata.
BenchmarkResults(qs, rs) ==
  [metadata |-> [total_queries |-> Len(qs), llm_provider |-> llm],
   results |-> rs,
   summary |-> Summary(rs)]

\* results = []: the list starts empty on every run.
NewResultsMut(old) == old
NewResults(old) == <<>>

\* A MetroCampusRecommender has been constructed over the stores and a
\* BenchmarkEvaluator over it.
BenchmarkInit ==
  /\ mongo \in CampusCollections
  /\ neo4j \in GraphStores
  /\ llm \in Providers
  /\ mongo_client = "open"
  /\ neo4j_driver = "open"
  /\ call_count = 0
  /\ op = "init"
  /\ pc = "idle"
  /\ query = <<>>
  /\ entities = NoEntities
  /\ context_data = NoContext
  /\ augmented_prompt = NoPrompt
  /\ baseline_result = NoResult
  /\ calls = <<"mongo.server_info", "neo4j.verify">>
  /\ faults = {}
  /\ result = NoResult
  /\ raised = ""
  /\ previous = NoPrevious
  /\ prompts = <<>>
  /\ bpc = "none"
  /\ queries = <<>>
  /\ processed = 0
  /\ results = <<>>
  /\ benchmark_results = NoBenchmark
  /\ failed = {}
  /\ earlier = NoBenchmark

\* The variables of the orchestrator that run_benchmark leaves alone: the
\* stores, the connections, and the locals and the trace of the operations.
recommender == <<stores, locals, baseline_result, calls, faults, previous, prompts>>

\* A caller invokes run_benchmark(queries). Scenario 3 repeats a run of the
\* deterministic provider once, on the same orchestrator and the same items.
RunBenchmark(qs) ==
  /\ pc = "idle"
  /\ \/ bpc = "none"
     \/ bpc = "done" /\ llm = "mock" /\ earlier = NoBenchmark /\ qs = queries
  /\ earlier' = IF bpc = "done" THEN benchmark_results ELSE earlier
  /\ bpc' = "loop"
  /\ queries' = qs
  /\ processed' = 0
  /\ results' = NewResults(results)
  /\ benchmark_results' = NoBenchmark
  /\ failed' = {}
  /\ UNCHANGED <<recommender, call_count, op, pc, query, result, raised>>

\* One turn of the loop of run_benchmark: compare_methods, the scoring of
\* its two responses, results.append; or the except clause when one of them
\* raises.
BenchmarkItem(session_fault, outcome_b, outcome_g) ==
  /\ bpc = "loop"
  /\ processed < Len(queries)
  /\ \E challenge \in {queries[processed + 1]} :
     \E c \in {CompareMethods(challenge.query, session_fault, outcome_b, outcome_g)} :
       /\ op' = "compare"
       /\ query' = challenge.query
       /\ call_count' = c.call_count
       /\ result' = c.comparison
       /\ raised' = c.raised
       /\ processed' = processed + 1
       /\ IF c.raised # ""
          THEN /\ failed' = failed \cup {challenge.id}
               /\ UNCHANGED results
          ELSE /\ \E baseline_response \in
                      {ResponseText(c.comparison.baseline.response, t) :
                         t \in TextsOf(c.comparison.baseline.response)},
                     graphrag_response \in
                      {ResponseText(c.comparison.graphrag.response, t) :
                         t \in TextsOf(c.comparison.graphrag.response)} :
                    results' = Append(results, ScoredItem(challenge, c.comparison,
                                                          baseline_response, graphrag_response))
               /\ UNCHANGED failed
  /\ UNCHANGED <<recommender, pc, bpc, queries, benchmark_results, earlier>>

\* The loop is over: run_benchmark computes the summary and returns.
BenchmarkReturn ==
  /\ bpc = "loop"
  /\ processed = Len(queries)
  /\ benchmark_results' = BenchmarkResults(queries, results)
  /\ bpc' = "done"
  /\ UNCHANGED <<recommender, call_count, op, pc, query, result, raised,
                 queries, processed, results, failed, earlier>>

BenchmarkNext ==
  \/ \E qs \in ChallengeLists : RunBenchmark(qs)
  \/ \E session_fault \in BOOLEAN, outcome_b \in OutcomesOf(llm), outcome_g \in OutcomesOf(llm) :
       BenchmarkItem(session_fault, outcome_b, outcome_g)
  \/ BenchmarkReturn

BenchmarkSpec == BenchmarkInit /\ [][BenchmarkNext]_vars

\* ------------------------------------------------------------------------
\* The pure functions on texts, applied to bounded inputs:
\* _extract_entities, validate_route, detect_hallucinations_graphrag
\* ------------------------------------------------------------------------

\* Parts of queries: how the origin is named, and how the study is.
QO_Callao ==
  <<"d","e","s","d","e"," ","C","a","l","l","a","o"," ","h","a","s","t","a"," ","M","o","n","c","l","o","a"," ">>
QO_OrigenDesde ==
  <<"o","r","i","g","e","n"," ","A","t","o","c","h","a"," ","h","a","s","t","a"," ","e","l"," ","f","i","n"," ","d","e","s","d","e"," ","S","o","l"," ","h","a","s","t","a"," ","M","o","n","c","l","o","a"," ">>
QO_MoncloaAtocha ==
  <<"v","o","y"," ","a"," ","M","o","n","c","l","o","a"," ","o"," ","A","t","o","c","h","a"," ">>
QO_estoy ==
  <<"e","s","t","o","y"," ","e","n"," ","c","a","l","l","a","o"," ","y"," ">>
QS_BigData ==
  <<"q","u","i","e","r","o"," ","e","s","t","u","d","i","a","r"," ","B","i","g"," ","D","a","t","a">>
QS_BlankBigData ==
  <<"q","u","i","e","r","o"," ","e","s","t","u","d","i","a","r"," "," ","?"," ","B","i","g"," ","D","a","t","a">>
QS_Blank ==
  <<"q","u","i","e","r","o"," ","e","s","t","u","d","i","a","r"," "," ","?">>
QS_CarreraGrado ==
  <<"l","a"," ","c","a","r","r","e","r","a"," ","d","e"," ","C","i","b","e","r","s","e","g","u","r","i","d","a","d"," ","o"," ","e","l"," ","G","r","a","d","o"," ","e","n"," ","M","a","c","h","i","n","e"," ","L","e","a","r","n","i","n","g","?">>
QS_TwoKnown ==
  <<"a","l","g","o"," ","d","e"," ","M","a","c","h","i","n","e"," ","L","e","a","r","n","i","n","g"," ","e"," ","I","n","t","e","l","i","g","e","n","c","i","a"," ","A","r","t","i","f","i","c","i","a","l">>
QS_Hola ==
  <<"H","o","l","a">>
\* Response texts with phrases about transfers.
V_DosConCambio ==
  <<"D","e","s","d","e"," ","S","o","l",","," ","2"," ","t","r","a","n","s","b","o","r","d","o","s"," ","c","o","n"," ","c","a","m","b","i","o"," ","d","e"," ","l","í","n","e","a">>
V_Dos ==
  <<"D","e","s","d","e"," ","S","o","l",","," ","2"," ","t","r","a","n","s","b","o","r","d","o","s">>
V_Cambio ==
  <<"c","a","m","b","i","o"," ","d","e"," ","l","í","n","e","a"," ","e","n"," ","S","o","l">>
V_SinYDos ==
  <<"s","i","n"," ","t","r","a","n","s","b","o","r","d","o","s"," ","d","e","s","d","e"," ","S","o","l",","," ","2"," ","t","r","a","n","s","b","o","r","d","o","s">>
V_DosDirecto ==
  <<"2"," ","t","r","a","n","s","b","o","r","d","o","s"," ","e","n"," ","t","r","e","n"," ","d","i","r","e","c","t","o">>
V_TresYUno ==
  <<"3"," ","t","r","a","n","s","b","o","r","d","o","s"," ","y"," ","l","u","e","g","o"," ","1"," ","t","r","a","n","s","b","o","r","d","o">>
V_Nada ==
  <<"n","a","d","a">>
\* Response texts that name a campus.
D_MoncloaPorque ==
  <<"T","e"," ","r","e","c","o","m","i","e","n","d","o"," ","e","l"," ","C","a","m","p","u","s"," ","d","e"," ","M","o","n","c","l","o","a"," ","p","o","r","q","u","e"," ","e","s","t","á"," ","c","e","r","c","a">>
D_Moncloa ==
  <<"E","l"," ","c","a","m","p","u","s"," ","d","e"," ","M","o","n","c","l","o","a">>
D_MoncloaSigla ==
  <<"V","e"," ","a","l"," ","C","a","m","p","u","s"," ","d","e"," ","M","o","n","c","l","o","a"," ","(","U","P","M",")">>
D_Leganes ==
  <<"V","e"," ","a","l"," ","C","a","m","p","u","s"," ","d","e"," ","L","e","g","a","n","é","s"," ","(","U","C","3","M",")">>
\* The queries _extract_entities is applied to: every way of naming the
\* origin (or none) followed by every way of naming the study (or none).
OriginParts == {<<>>, QO_Callao, QO_OrigenDesde, QO_MoncloaAtocha, QO_estoy}
StudyParts == {<<>>, QS_BigData, QS_BlankBigData, QS_Blank, QS_CarreraGrado, QS_TwoKnown, QS_Hola}
ExtractQueries == {o \o s : o \in OriginParts, s \in StudyParts}

\* The responses validate_route is applied to.
ValidateTexts ==
  {V_DosConCambio, V_Dos, V_Cambio, V_SinYDos, V_DosDirecto, V_TresYUno, V_Nada, A_Moncloa, A_Sur}

\* The responses and the contexts detect_hallucinations_graphrag is applied
\* to: the contexts hold the campus lists the lookup gives for a study.
DetectTexts ==
  {D_MoncloaPorque, D_Moncloa, D_MoncloaSigla, D_Leganes, A_Moncloa, A_Sur, A_CiudadUniversitaria}
DetectContexts ==
  {[NoContext EXCEPT !.campus = SearchCampusMongodb(coll, q, NoFault), !.estudio_buscado = q] :
     coll \in CampusCollections, q \in {T_InteligenciaArtificial, T_BigData}}

\* A function is about to be applied: op names it, query holds its text
\* argument and context_data its context argument; no orchestrator is
\* constructed and no store is read.
FunctionsInit ==
  /\ \/ op = "_extract_entities" /\ query \in ExtractQueries /\ context_data = NoContext
     \/ op = "validate_route" /\ query \in ValidateTexts /\ context_data = NoContext
     \/ op = "detect_hallucinations_graphrag" /\ query \in DetectTexts
        /\ context_data \in DetectContexts
  /\ pc = "apply"
  /\ mongo = <<>>
  /\ neo4j = [edges |-> {}, shortest |-> <<>>]
  /\ llm = "unset"
  /\ mongo_client = "unset"
  /\ neo4j_driver = "unset"
  /\ call_count = 0
  /\ entities = NoEntities
  /\ augmented_prompt = NoPrompt
  /\ baseline_result = NoResult
  /\ calls = <<>>
  /\ faults = {}
  /\ result = NoResult
  /\ raised = ""
  /\ previous = NoPrevious
  /\ prompts = <<>>
  /\ bpc = "none"
  /\ queries = <<>>
  /\ processed = 0
  /\ results = <<>>
  /\ benchmark_results = NoBenchmark
  /\ failed = {}
  /\ earlier = NoBenchmark

\* What the application of a function leaves alone.
untouched ==
  <<harness, stores, call_count, op, query, context_data, augmented_prompt, baseline_result,
    calls, faults, raised, previous, prompts>>

\* entities = self._extract_entities(query)
ApplyExtractEntities ==
  /\ pc = "apply"
  /\ op = "_extract_entities"
  /\ entities' = ExtractEntities(query)
  /\ pc' = "idle"
  /\ UNCHANGED <<untouched, result>>

\* metrics = EvaluationMetrics.validate_route(response, expected), with the
\* expectations of the first benchmark item.
ApplyValidateRoute ==
  /\ pc = "apply"
  /\ op = "validate_route"
  /\ result' = [method |-> "validate_route", metrics |-> ValidateRoute(query, Challenge1.expected)]
  /\ pc' = "idle"
  /\ UNCHANGED <<untouched, entities>>

\* hallucinations = EvaluationMetrics.detect_hallucinations_graphrag(response, context)
ApplyDetectHallucinations ==
  /\ pc = "apply"
  /\ op = "detect_hallucinations_graphrag"
  /\ result' = [method |-> "detect_hallucinations_graphrag",
                hallucinations |-> DetectHallucinationsGraphrag(query, context_data)]
  /\ pc' = "idle"
  /\ UNCHANGED <<untouched, entities>>

FunctionsNext ==
  \/ ApplyExtractEntities
  \/ ApplyValidateRoute
  \/ ApplyDetectHallucinations

FunctionsSpec == FunctionsInit /\ [][FunctionsNext]_vars

\* ------------------------------------------------------------------------
\* Properties
\* ------------------------------------------------------------------------

\* The contexts in sight: the one _retrieve_context has just built and the
\* one inside the result of the operation.
ContextsInSight ==
  {context_data} \cup (IF ReturnsContext(result) THEN {ReturnedContext(result)} ELSE {})

\* A route list in ascending order of (transfer count, station count).
SortedByTransfersThenStations(rutas) ==
  \A i \in 1..(Len(rutas) - 1) :
    \/ rutas[i].num_cambios_linea < rutas[i + 1].num_cambios_linea
    \/ /\ rutas[i].num_cambios_linea = rutas[i + 1].num_cambios_linea
       /\ rutas[i].num_estaciones <= rutas[i + 1].num_estaciones

\* C1: after every route computation the route list of the context is sorted
\* ascending by (num_cambios_linea, num_estaciones): every adjacent pair
\* (a, b) has a.num_cambios_linea < b.num_cambios_linea, or equal transfer
\* counts and a.num_estaciones <= b.num_estaciones.
C1_RoutesSorted ==
  \A c \in ContextsInSight : SortedByTransfersThenStations(c.rutas)

\* C1 happens: a context whose routes were discovered in another order than
\* the one they are returned in.
C1_Witness ==
  /\ pc = "augment"
  /\ faults = {}
  /\ Len(context_data.rutas) >= 2
  /\ context_data.rutas #
       DiscoveredRutas(neo4j, context_data.estacion_origen, context_data.campus, {})

\* The graph store joins the two stations by a path.
HasPath(store, origen, destino) == <<origen, destino>> \in DOMAIN store.shortest

\* The route list holds a candidate for the pair.
HasCandidate(rutas, pair) ==
  \E i \in 1..Len(rutas) :
    /\ rutas[i].campus = pair.campus.nombre
    /\ rutas[i].estacion_destino = pair.cercana.nombre_estacion

\* C2: when the origin station is set and at least one campus matched, the
\* route computation produces a RouteCandidate for every (matched campus,
\* nearby station) pair that the graph store joins to the origin by a path,
\* whatever the length of the path (one edge and two edges included); with
\* no store call failing, a pair is left out only when the store has no path.
C2_CandidateForEveryJoinedPair ==
  (/\ pc = "augment"
   /\ faults = {}
   /\ CalculatesRoutes(context_data.estacion_origen, context_data.campus))
  => \A i \in 1..Len(DiscoveryPairs(context_data.campus)) :
       HasPath(neo4j, context_data.estacion_origen,
               DiscoveryPairs(context_data.campus)[i].cercana.nombre_estacion)
       => HasCandidate(context_data.rutas, DiscoveryPairs(context_data.campus)[i])

\* Transfers of a path, counted on its edges: the indices i whose line
\* differs from the line of edge i + 1.
TransfersOf(path) ==
  Cardinality({i \in 1..(Len(path.nodes) - 2) : path.lineas[i] # path.lineas[i + 1]})

\* C3: every RouteCandidate has num_estaciones equal to the number of edges
\* of the shortest path the graph store returns for its origin and
\* destination, and num_cambios_linea equal to the number of indices i for
\* which the line of edge i differs from the line of edge i + 1.
C3_CountsMatchPath ==
  \A c \in ContextsInSight : \A i \in 1..Len(c.rutas) :
    /\ HasPath(neo4j, c.estacion_origen, c.rutas[i].estacion_destino)
    /\ c.rutas[i].num_estaciones =
         Len(neo4j.shortest[<<c.estacion_origen, c.rutas[i].estacion_destino>>].nodes) - 1
    /\ c.rutas[i].num_cambios_linea =
         TransfersOf(neo4j.shortest[<<c.estacion_origen, c.rutas[i].estacion_destino>>])

\* C3 happens: a candidate for a path of three edges on one line next to a
\* candidate for a path with a transfer.
C3_Witness ==
  /\ pc = "augment"
  /\ \E i, j \in 1..Len(context_data.rutas) :
       /\ context_data.rutas[i].num_estaciones = 3
       /\ context_data.rutas[i].num_cambios_linea = 0
       /\ context_data.rutas[j].num_cambios_linea = 1

\* C4: every RouteCandidate of a context has
\* num_cambios_linea <= num_estaciones.
C4_TransfersAtMostStations ==
  \A c \in ContextsInSight : \A i \in 1..Len(c.rutas) :
    c.rutas[i].num_cambios_linea <= c.rutas[i].num_estaciones

\* C4 happens: a returned context holds a candidate with as many transfers
\* as a path of its length can have.
C4_Witness ==
  /\ pc = "idle"
  /\ ReturnsContext(result)
  /\ \E i \in 1..Len(ReturnedContext(result).rutas) :
       /\ ReturnedContext(result).rutas[i].num_estaciones = 2
       /\ ReturnedContext(result).rutas[i].num_cambios_linea = 1

\* The result of graphrag_recommendation inside what the operation returned.
ReturnedGraphrag(r) == IF r.method = "compare" THEN r.graphrag ELSE r

\* Nothing was retrieved: no campus, no route, no source.
NothingRetrieved(g) ==
  g.context.campus = <<>> /\ g.context.rutas = <<>> /\ g.sources = <<>>

C6_SameQuerySameContext ==
  (/\ pc = "idle"
   /\ ReturnsContext(result)
   /\ faults \cap StoreFaults = {}
   /\ previous.query = query)
  => ReturnedContext(result) = previous.context

\* C6 happens: the second of two calls with one query has returned a context
\* with routes, the MockProvider having counted a call in between.
C6_Witness ==
  /\ pc = "idle"
  /\ result.method = "graphrag"
  /\ faults = {}
  /\ previous.query = query
  /\ Len(previous.context.rutas) >= 2
  /\ llm = "mock"
  /\ call_count = 2

\* Scenario 1 is set: the operation has returned for its query, no store
\* call failed, the document store holds "Ciudad Universitaria (UCM)" with
\* the study, and the graph store has a one-transfer shortest path from Sol
\* to a station near that campus.
Scenario1 ==
  /\ pc = "idle"
  /\ ReturnsContext(result)
  /\ query = QSolIA
  /\ faults \cap StoreFaults = {}
  /\ \E i \in 1..Len(mongo) : mongo[i] = CampusCU
  /\ \E e \in 1..Len(CampusCU.estaciones_cercanas) :
       /\ HasPath(neo4j, S_Sol, CampusCU.estaciones_cercanas[e].nombre_estacion)
       /\ TransfersOf(neo4j.shortest[<<S_Sol, CampusCU.estaciones_cercanas[e].nombre_estacion>>]) = 1

Scenario1Entities ==
  ReturnedGraphrag(result).entities =
    [estacion_origen |-> S_Sol, estudio |-> T_InteligenciaArtificial]

\* C7 as stated: in scenario 1 extraction yields origin "Sol" and study
\* "Inteligencia Artificial", and the first route of the returned context
\* has campus "Ciudad Universitaria (UCM)" and num_cambios_linea = 1.
C7_Scenario1FirstRoute ==
  Scenario1 =>
    /\ Scenario1Entities
    /\ Len(ReturnedContext(result).rutas) >= 1
    /\ ReturnedContext(result).rutas[1].campus = N_CU_UCM
    /\ ReturnedContext(result).rutas[1].num_cambios_linea = 1

\* C7, amended: in scenario 1 extraction yields origin "Sol" and study
\* "Inteligencia Artificial", and the returned context holds a route with
\* campus "Ciudad Universitaria (UCM)" and num_cambios_linea = 1; it is the
\* first route when that campus is the only one matched and no route of the
\* context has fewer transfers.
C7_Scenario1RouteRanked ==
  Scenario1 =>
    /\ Scenario1Entities
    /\ \E i \in 1..Len(ReturnedContext(result).rutas) :
         /\ ReturnedContext(result).rutas[i].campus = N_CU_UCM
         /\ ReturnedContext(result).rutas[i].num_cambios_linea = 1
    /\ (/\ Len(ReturnedContext(result).campus) = 1
        /\ \A i \in 1..Len(ReturnedContext(result).rutas) :
             ReturnedContext(result).rutas[i].num_cambios_linea >= 1)
       => /\ ReturnedContext(result).rutas[1].campus = N_CU_UCM
          /\ ReturnedContext(result).rutas[1].num_cambios_linea = 1

\* C7 happens: scenario 1 has returned with the one-transfer route to
\* "Ciudad Universitaria (UCM)" first, after the route to another campus
\* was ranked behind it or left out.
C7_Witness ==
  /\ Scenario1
  /\ result.method = "graphrag"
  /\ result.context.rutas # <<>>
  /\ result.context.rutas[1].campus = N_CU_UCM
  /\ result.context.rutas[1].num_cambios_linea = 1
  /\ result.context.rutas[1].ruta = <<S_Sol, S_CuatroCaminos, S_CiudadUniversitaria>>

\* A result of graphrag_recommendation with all its fields, for the query of
\* the call.
WellFormedGraphrag(g) ==
  /\ DOMAIN g = {"method", "query", "entities", "context", "response", "sources"}
  /\ g.method = "graphrag"
  /\ g.query = query
  /\ g.response.kind # "none"

\* C8: an exception of the document capability during the campus lookup
\* (find, or the iteration of its cursor) is not propagated: the campus list
\* of the context is empty, no route computation is attempted, and
\* graphrag_recommendation returns a well-formed result unless its generate
\* call raises.
C8_MongoFailureContained ==
  "mongo" \in faults =>
    /\ raised \notin {"mongo", "session"}
    /\ \A i \in 1..Len(calls) : calls[i] \notin {"neo4j.session", "neo4j.run"}
    /\ pc \in {"augment", "generate"}
       => context_data.campus = <<>> /\ context_data.rutas = <<>>
    /\ (pc = "idle" /\ raised = "")
       => /\ ReturnsContext(result)
          /\ WellFormedGraphrag(ReturnedGraphrag(result))
          /\ NothingRetrieved(ReturnedGraphrag(result))

\* C8 happens: the lookup of a study the store matches failed for a query
\* with an origin, and graphrag_recommendation has returned.
C8_Witness ==
  /\ pc = "idle"
  /\ "mongo" \in faults
  /\ result.method = "graphrag"
  /\ result.entities.estacion_origen # NoneVal
  /\ MongoFind(mongo, result.entities.estudio) # <<>>
  /\ result.context.campus = <<>>

\* C9: an exception of the graph capability during route computation
\* (opening the session, or running the query of a pair) never leaves
\* _retrieve_context or graphrag_recommendation: a well-formed context is
\* returned, and its campus list is kept.
C9_GraphFailureContained ==
  faults \cap {"session", "run"} # {} =>
    /\ raised \notin {"session", "run"}
    /\ pc \in {"augment", "generate"} => context_data.campus # <<>>
    /\ (pc = "idle" /\ raised = "")
       => /\ ReturnsContext(result)
          /\ WellFormedGraphrag(ReturnedGraphrag(result))
          /\ ReturnedContext(result).campus # <<>>

\* The response texts inside a result.
ResponsesOf(r) ==
  CASE r.method = "compare" -> {r.baseline.response, r.graphrag.response}
    [] r.method \in {"baseline", "graphrag"} -> {r.response}
    [] OTHER -> {}

\* C10: whatever provider the orchestrator was given, a failure of generate
\* during baseline_llm, graphrag_recommendation or compare_methods does not
\* reach the caller: the operation (when no graph session ended it) returns
\* its result, and a response text of the result carries the error.
C10_GenerateFailureContained ==
  (pc = "idle" /\ "generate" \in faults /\ raised # "session") =>
    /\ raised = ""
    /\ result.method = op
    /\ \E r \in ResponsesOf(result) : r.kind = "error"

\* The operation made the capability call.
Called(name) == \E i \in 1..Len(calls) : calls[i] = name

\* C11: every close() on a constructed orchestrator releases both held
\* connections, the document-store client and the graph-store driver, on
\* every exit path, the one on which releasing one of them raises included:
\* both close calls are made, and a connection whose close did not raise is
\* closed.
C11_CloseReleasesBoth ==
  op = "close" =>
    /\ Called("mongo.close")
    /\ Called("neo4j.close")
    /\ "mongo.close" \notin faults => mongo_client = "closed"
    /\ "neo4j.close" \notin faults => neo4j_driver = "closed"

\* C12: when the connection check of either store fails during construction,
\* the constructor raises ConnectionError and hands out no object: self.llm
\* is never assigned, no generate call was made, and no operation can follow.
C12_FailedConstructionGivesNoObject ==
  (op = "init" /\ faults # {}) =>
    /\ raised = "ConnectionError"
    /\ pc = "failed"
    /\ llm = "unset"
    /\ call_count = 0
    /\ ~ENABLED Next

\* C12 happens: the check of the graph store failed after the check of the
\* document store had passed.
C12_Witness ==
  /\ pc = "failed"
  /\ faults = {"neo4j.verify"}
  /\ calls = <<"mongo.server_info", "neo4j.verify">>
  /\ raised = "ConnectionError"

\* C13: baseline_llm extracts no entities and calls neither store; it calls
\* generate exactly once, with a prompt that holds the literal query; and the
\* result it returns has context_used = None and sources = []. (A call whose
\* generate raised returns nothing.)
C13_BaselineFrame ==
  (op = "baseline" /\ pc = "idle") =>
    /\ entities = NoEntities
    /\ context_data = NoContext
    /\ calls = <<"llm.generate">>
    /\ Len(prompts) = 1
    /\ prompts[1].kind = "baseline"
    /\ query \in PromptTexts(prompts[1])
    /\ raised = "" =>
         /\ result.method = "baseline"
         /\ result.query = query
         /\ result.context_used = NoneVal
         /\ result.sources = <<>>

\* C13 happens: baseline_llm returned for a query that names an origin and a
\* study the stores know.
C13_Witness ==
  /\ op = "baseline"
  /\ pc = "idle"
  /\ raised = ""
  /\ query = QSolIA
  /\ result.method = "baseline"
  /\ MongoFind(mongo, Extracted[query].estudio) # <<>>

\* C14: the augmented prompt states that no campus was found exactly when the
\* campus list of the context is empty, and states that no routes could be
\* calculated exactly when the route list of the context is empty; it lists
\* campus, respectively routes, exactly when the list is not empty.
C14_EmptySectionsStated ==
  augmented_prompt.kind = "augmented" =>
    /\ augmented_prompt.no_campus <=> context_data.campus = <<>>
    /\ augmented_prompt.no_rutas <=> context_data.rutas = <<>>
    /\ augmented_prompt.campus = <<>> <=> context_data.campus = <<>>
    /\ augmented_prompt.rutas = <<>> <=> context_data.rutas = <<>>

\* C14 happens (scenario 2): the study of the query matches no campus of the
\* document store, the lookup did not fail, and the prompt was built.
C14_Witness ==
  /\ augmented_prompt.kind = "augmented"
  /\ Truthy(entities.estudio)
  /\ Truthy(entities.estacion_origen)
  /\ faults = {}
  /\ MongoFind(mongo, entities.estudio) = <<>>
  /\ context_data.campus = <<>>
  /\ context_data.rutas = <<>>
  /\ augmented_prompt.no_campus
  /\ augmented_prompt.no_rutas

\* The stations the edges join to the stations of S, by paths of any length.
RECURSIVE ReachableFrom(_, _)
ReachableFrom(edges, S) ==
  LET N == S \cup UNION {{st.to : st \in Steps(edges, n)} : n \in S}
  IN IF N = S THEN S ELSE ReachableFrom(edges, N)

\* The graph store joins the origin to no station near a campus of the list.
NoPathToAny(edges, origen, campus_list) ==
  \A reach \in {ReachableFrom(edges, {origen})} :
    \A c \in SeqSet(campus_list) :
      \A e \in SeqSet(c.estaciones_cercanas) :
        Truthy(e.nombre_estacion) => e.nombre_estacion \notin reach

\* The entities of the operation under way or returned; NoEntities when
\* there is none.
EntitiesInSight ==
  IF pc \in {"augment", "generate"} THEN entities
  ELSE IF ReturnsContext(result) THEN ReturnedGraphrag(result).entities
  ELSE NoEntities

\* Scenario 4: the operation is past _retrieve_context; its query names an
\* origin and a study the document store matches; no store call failed; and
\* the graph store has no path from the origin to any station near a matched
\* campus.
Scenario4(ents) ==
  /\ op \in {"graphrag", "compare"}
  /\ faults \cap StoreFaults = {}
  /\ Truthy(ents.estacion_origen)
  /\ Truthy(ents.estudio)
  /\ \E found \in {MongoFind(mongo, ents.estudio)} :
       /\ found # <<>>
       /\ NoPathToAny(neo4j.edges, ents.estacion_origen, found)

\* C15 (scenario 4): when the study matches a campus, the origin is set, no
\* store call fails and the graph store has no path from the origin to any
\* station near a matched campus, retrieval raises nothing, the context has
\* no route, its campus list is the non-empty list of the document store's
\* matches, and the prompt states that no routes could be calculated.
C15_NoPathNoRoutes ==
  \A ents \in {EntitiesInSight} :
    Scenario4(ents) =>
      /\ raised = ""
      /\ \A c \in (IF pc = "idle" THEN {} ELSE {context_data})
                  \cup (IF ReturnsContext(result) THEN {ReturnedContext(result)} ELSE {}) :
           /\ c.rutas = <<>>
           /\ c.campus # <<>>
           /\ \A found \in {SearchCampusMongodb(mongo, ents.estudio, NoFault)} :
                c.campus = found
      /\ \A p \in (IF pc = "generate" THEN {augmented_prompt} ELSE {})
                  \cup {prompts[i] : i \in {j \in 1..Len(prompts) : prompts[j].kind = "augmented"}} :
           /\ p.no_rutas
           /\ p.rutas = <<>>
           /\ p.campus # <<>>

\* C15 happens: graphrag_recommendation returned for a query with an origin
\* and a matched study over a graph that leaves the origin apart from the
\* campus stations, after handing generate a prompt without routes.
C15_Witness ==
  /\ Scenario4(EntitiesInSight)
  /\ op = "graphrag"
  /\ pc = "idle"
  /\ faults = {}
  /\ neo4j.edges = GraphSplit
  /\ ReturnsContext(result)
  /\ ReturnedContext(result).campus # <<>>
  /\ ReturnedContext(result).rutas = <<>>
  /\ Len(prompts) = 1
  /\ prompts[1].no_rutas

\* C16: the augmented prompt lists every CampusMatch of the context, in
\* order, each with all of its matched studies; of a ranked route list of
\* length n it lists the first min(3, n) routes, in rank order, and no route
\* ranked fourth or later.
C16_PromptListsCampusAndTopRoutes ==
  pc = "generate" =>
    /\ Len(augmented_prompt.campus) = Len(context_data.campus)
    /\ \A i \in 1..Len(context_data.campus) :
         /\ augmented_prompt.campus[i].nombre = context_data.campus[i].nombre
         /\ augmented_prompt.campus[i].estudios = context_data.campus[i].estudios
    /\ Len(augmented_prompt.rutas) =
         (IF Len(context_data.rutas) < 3 THEN Len(context_data.rutas) ELSE 3)
    /\ \A i \in 1..Len(augmented_prompt.rutas) :
         augmented_prompt.rutas[i] = context_data.rutas[i]
    /\ \A j \in 4..Len(context_data.rutas) :
         context_data.rutas[j] \notin SeqSet(augmented_prompt.rutas)

\* C16 happens: a prompt built from a context with two campus and more than
\* three routes.
C16_Witness ==
  /\ pc = "generate"
  /\ Len(context_data.campus) = 2
  /\ Len(context_data.rutas) >= 4
  /\ Len(augmented_prompt.rutas) = 3

\* The name of the study holds the filter, whatever the case of either.
StudyMatches(e, q) == ContainsCI(e.nombre, q)

\* The campus list has exactly one CampusMatch, in order, for each of the
\* documents with a matching study, holding the matching studies of the
\* document in document order.
OneMatchPerDocument(campus, docs, q) ==
  \A matching \in {SelectSeq(docs, LAMBDA d : \E i \in 1..Len(d.estudios) :
                                               StudyMatches(d.estudios[i], q))} :
    /\ Len(campus) = Len(matching)
    /\ \A i \in 1..Len(matching) :
         /\ campus[i].nombre = matching[i].nombre
         /\ campus[i].universidad = matching[i].universidad
         /\ campus[i].estudios = SelectSeq(matching[i].estudios, LAMBDA e : StudyMatches(e, q))

\* Every CampusMatch of the list holds at least one study, and only studies
\* that match the filter.
OnlyMatchingStudies(campus, q) ==
  \A i \in 1..Len(campus) :
    /\ campus[i].estudios # <<>>
    /\ \A j \in 1..Len(campus[i].estudios) : StudyMatches(campus[i].estudios[j], q)

\* The lookup of the operation under way has been made.
LookedUp == pc = "augment" /\ Truthy(context_data.estudio_buscado)

\* The documents the cursor of the lookup handed out.
ReturnedDocuments ==
  SubSeq(MongoFind(mongo, context_data.estudio_buscado), 1,
         Cardinality({i \in 1..Len(calls) : calls[i] = "mongo.next"}))

\* C17 as stated: the campus list of every document lookup holds exactly one
\* CampusMatch for each returned document with a study whose name contains
\* the filter as a case-insensitive substring, each with only the matching
\* studies, in document order, and never with an empty study list.
C17_OneMatchPerReturnedDocument ==
  LookedUp =>
    /\ OneMatchPerDocument(context_data.campus, ReturnedDocuments, context_data.estudio_buscado)
    /\ OnlyMatchingStudies(context_data.campus, context_data.estudio_buscado)

\* C17, amended: the campus list of a document lookup that does not raise
\* holds exactly one CampusMatch for each returned document with a matching
\* study, each with only the matching studies in document order; the list of
\* a lookup that raises, after any number of documents, is empty; and no
\* CampusMatch ever has an empty study list or a study that does not match.
C17_OneMatchPerDocumentUnlessRaised ==
  LookedUp =>
    /\ "mongo" \notin faults =>
         OneMatchPerDocument(context_data.campus, MongoFind(mongo, context_data.estudio_buscado),
                             context_data.estudio_buscado)
    /\ "mongo" \in faults => context_data.campus = <<>>
    /\ OnlyMatchingStudies(context_data.campus, context_data.estudio_buscado)

\* C17 happens: a lookup whose filter differs in case from the study names
\* returned two documents, one of them with a study that does not match.
C17_Witness ==
  /\ LookedUp
  /\ faults = {}
  /\ Len(context_data.campus) = 1
  /\ Len(mongo) = 2
  /\ context_data.estudio_buscado = <<"b","i","g"," ","d","a","t","a">>
  /\ context_data.campus[1].estudios = <<Estudio(E_MasterBigData, T_Master, 0)>>

\* The campus names of the benchmark: those of the stores and those its
\* items expect.
CampusNames == {N_CU_UCM, N_Moncloa_UPM, N_Leganes_UC3M, N_Sur_UPM}

\* The text names a campus that the campus list of the context does not hold.
MentionsCampusOutside(text, context) ==
  \E name \in CampusNames :
    /\ ContainsCI(text, name)
    /\ \A c \in 1..Len(context.campus) : context.campus[c].nombre # name

\* The loop of run_benchmark has just scored an item: the comparison is the
\* one compare_methods returned, the entry is the last of results.
ItemScored == bpc = "loop" /\ processed >= 1 /\ op = "compare" /\ raised = "" /\ results # <<>>

\* C18: when the graphrag response of a benchmark item mentions a campus
\* name that is the name of no campus of the retrieved context, the
\* hallucination list of the item is not empty, whatever the length of the
\* name and whatever words come before it.
C18_CampusOutsideContextFlagged ==
  ItemScored =>
    \A last \in {results[Len(results)]} :
      MentionsCampusOutside(last.graphrag_response, ReturnedContext(result))
      => last.graphrag_hallucinations # <<>>

\* The ids of the items the loop has been through, without those whose
\* processing raised.
IdsKept ==
  SelectSeq([k \in 1..processed |-> queries[k].id], LAMBDA id : id \notin failed)

ZeroRatio == [num |-> 0, den |-> 1]

\* C19: run_benchmark always runs to the end of the item list and returns:
\* while it is in its loop it has a next step, whatever the item before
\* raised. An item whose processing raises gets no entry in results and is
\* counted in no aggregate, the items after it are still processed in order,
\* the denominator of the success rates is the number of items scored
\* without error, and all rates and averages are 0, without a division by
\* zero, when every item fails.
C19_BenchmarkSurvivesItemFailures ==
  bpc \in {"loop", "done"} =>
    /\ processed <= Len(queries)
    /\ bpc = "loop" => ENABLED BenchmarkNext
    /\ failed \subseteq {queries[k].id : k \in 1..processed}
    /\ [r \in 1..Len(results) |-> results[r].challenge_id] = IdsKept
    /\ bpc = "done" =>
         /\ processed = Len(queries)
         /\ benchmark_results.results = results
         /\ benchmark_results.summary.success_rates.total_queries
              = Len(queries) - Cardinality(failed)
         /\ \A rate \in {benchmark_results.summary.success_rates.baseline_success_rate,
                         benchmark_results.summary.success_rates.graphrag_success_rate} :
              /\ rate.den > 0
              /\ results # <<>> => rate.den = Len(queries) - Cardinality(failed)
              /\ results = <<>> => rate = ZeroRatio
         /\ benchmark_results.summary.success_rates.graphrag_success_rate.num
              = Cardinality({r \in 1..Len(results) : results[r].graphrag_metrics.is_valid})
         /\ benchmark_results.summary.success_rates.baseline_success_rate.num
              = Cardinality({r \in 1..Len(results) : results[r].baseline_metrics.is_valid})
         /\ \A avg \in {benchmark_results.summary.avg_transbordos_baseline,
                        benchmark_results.summary.avg_transbordos_graphrag} :
              /\ avg.den > 0
              /\ results = <<>> => avg = ZeroRatio
         /\ results = <<>> =>
              /\ benchmark_results.summary.total_hallucinations_baseline = 0
              /\ benchmark_results.summary.total_hallucinations_graphrag = 0

\* C19 happens: the run returned after its first item raised and its second
\* item was scored.
C19_Witness ==
  /\ bpc = "done"
  /\ Len(queries) = 2
  /\ failed = {queries[1].id}
  /\ Len(results) = 1
  /\ results[1].challenge_id = queries[2].id

\* What a run in which no item raised returned: every item has its entry.
AllScored(returned) == Len(returned.results) = returned.metadata.total_queries

\* C20 (scenario 3): a benchmark run yields a graphrag success rate between
\* 0 and 1, the count of valid items never above the number of scored items,
\* and a hallucination total that is a natural number; and when the run is
\* repeated on the same orchestrator with the mock provider, its call
\* counter carried over, the stores unchanged and no store call failing, the
\* summary of the second run (success rates, average transfers,
\* hallucination totals) is the summary of the first.
C20_RerunGivesSameSummary ==
  bpc = "done" =>
    /\ \A rate \in {benchmark_results.summary.success_rates.graphrag_success_rate} :
         /\ rate.num \in Nat
         /\ rate.den \in Nat \ {0}
         /\ rate.num <= rate.den
         /\ rate.num <= Len(results)
    /\ benchmark_results.summary.total_hallucinations_graphrag \in Nat
    /\ (/\ llm = "mock"
        /\ earlier # NoBenchmark
        /\ AllScored(earlier)
        /\ failed = {})
       => benchmark_results.summary = earlier.summary

\* C20 happens: the second run over two items has returned; the mock
\* provider has counted the calls of both runs, and its answers in the
\* second run differ from those of the first.
C20_Witness ==
  /\ bpc = "done"
  /\ llm = "mock"
  /\ earlier # NoBenchmark
  /\ Len(queries) = 2
  /\ AllScored(earlier)
  /\ failed = {}
  /\ call_count = 8
  /\ results[1].graphrag_response # earlier.results[1].graphrag_response
  /\ benchmark_results.summary = earlier.summary

\* The place of a candidate in the order of discovery: the index of its
\* (campus, nearby station) pair in the order of the two loops.
DiscoveryIndex(campus_list, r) ==
  Bind(DiscoveryPairs(campus_list), LAMBDA pairs :
    Min0({k \in 1..Len(pairs) : /\ pairs[k].campus.nombre = r.campus
                                /\ pairs[k].cercana.nombre_estacion = r.estacion_destino}))

\* C21: ranking is stable and uses no signal other than (transfer count,
\* station count): two RouteCandidates with equal num_cambios_linea and equal
\* num_estaciones stand in the ranked list in the order in which they were
\* discovered (campus order, then nearby-station order), whatever their
\* walking minutes, station role or campus.
C21_TiesInDiscoveryOrder ==
  \A c \in ContextsInSight :
    Len(c.rutas) >= 2 =>
      \A i, j \in 1..Len(c.rutas) :
        (/\ i < j
         /\ c.rutas[i].num_cambios_linea = c.rutas[j].num_cambios_linea
         /\ c.rutas[i].num_estaciones = c.rutas[j].num_estaciones)
        => DiscoveryIndex(c.campus, c.rutas[i]) < DiscoveryIndex(c.campus, c.rutas[j])

\* C21 happens: a returned context ranks two candidates of equal counts, the
\* second of another campus, of another role and with fewer walking minutes
\* than the first.
C21_Witness ==
  /\ pc = "idle"
  /\ ReturnsContext(result)
  /\ \E i, j \in 1..Len(ReturnedContext(result).rutas) :
       /\ i < j
       /\ ReturnedContext(result).rutas[i].num_cambios_linea
            = ReturnedContext(result).rutas[j].num_cambios_linea
       /\ ReturnedContext(result).rutas[i].num_estaciones
            = ReturnedContext(result).rutas[j].num_estaciones
       /\ ReturnedContext(result).rutas[i].campus # ReturnedContext(result).rutas[j].campus
       /\ ReturnedContext(result).rutas[i].rol_estacion # ReturnedContext(result).rutas[j].rol_estacion
       /\ ReturnedContext(result).rutas[i].minutos_andando
            > ReturnedContext(result).rutas[j].minutos_andando

\* C22: retrieval skips exactly the missing half of partial entities: the
\* document capability is queried if and only if a study name was extracted,
\* and the graph capability is queried if and only if an origin station was
\* extracted and the campus list is not empty; a query with a study but no
\* origin still returns the matched campuses with an empty route list, and
\* zero matched campuses means no graph call at all.
C22_RetrievalSkipsMissingHalf ==
  pc = "augment" =>
    /\ Called("mongo.find") <=> Truthy(entities.estudio)
    /\ Called("neo4j.session")
         <=> (Truthy(entities.estacion_origen) /\ context_data.campus # <<>>)
    /\ Called("neo4j.run") => Called("neo4j.session")
    /\ (Truthy(entities.estudio) /\ ~Truthy(entities.estacion_origen))
         => /\ context_data.rutas = <<>>
            /\ "mongo" \notin faults
                 => \E found \in {MongoFind(mongo, entities.estudio)} :
                      context_data.campus = CampusList(found, entities.estudio, Len(found))
    /\ context_data.campus = <<>>
         => ~Called("neo4j.session") /\ ~Called("neo4j.run")

\* C22 happens: retrieval for a query with a study and no origin ended with
\* matched campuses, the document capability queried and the graph left alone.
C22_Witness ==
  /\ pc = "augment"
  /\ Truthy(entities.estudio)
  /\ ~Truthy(entities.estacion_origen)
  /\ Called("mongo.find")
  /\ ~Called("neo4j.session")
  /\ context_data.campus # <<>>
  /\ context_data.rutas = <<>>

\* The number of places at which x stands in s.
Occurrences(s, x) == Cardinality({i \in 1..Len(s) : s[i] = x})

\* Two lists with the same elements, each as many times in one as in the other.
Permutation(a, b) ==
  /\ Len(a) = Len(b)
  /\ \A x \in SeqSet(a) \cup SeqSet(b) : Occurrences(a, x) = Occurrences(b, x)

\* The ranked list holds the candidates the two loops appended, each once.
RankedIsPermutation ==
  (pc = "augment" /\ "run" \notin faults)
  => \E found \in {DiscoveredRutas(neo4j, context_data.estacion_origen, context_data.campus, {})} :
       Permutation(context_data.rutas, found)

\* The nearby stations of a campus that have a name and that the graph store
\* joins to the origin by a path.
StationsWithPath(store, origen, campus) ==
  {e \in 1..Len(campus.estaciones_cercanas) :
     /\ Truthy(campus.estaciones_cercanas[e].nombre_estacion)
     /\ HasPath(store, origen, campus.estaciones_cercanas[e].nombre_estacion)}

\* The candidates of a route list that lead to a campus.
CandidatesOf(rutas, campus) == {i \in 1..Len(rutas) : rutas[i].campus = campus.nombre}

\* C23: the retriever neither drops nor merges nor truncates candidates: the
\* ranked route list is a permutation of the candidates discovered during
\* route computation, so several nearby stations of the same campus that each
\* have a path all appear as separate RouteCandidates, and a list of more than
\* three candidates is returned in full.
C23_NothingDroppedMergedOrTruncated ==
  (/\ pc = "augment"
   /\ faults = {}
   /\ CalculatesRoutes(context_data.estacion_origen, context_data.campus))
  => /\ RankedIsPermutation
     /\ \A k \in 1..Len(context_data.campus) :
          \E near \in {StationsWithPath(neo4j, context_data.estacion_origen, context_data.campus[k])} :
            Cardinality(near) >= 2
            => Cardinality(CandidatesOf(context_data.rutas, context_data.campus[k])) = Cardinality(near)

\* graphrag_recommendation or compare_methods has ended, by a return or by
\* an exception.
PipelineEnded == pc = "idle" /\ op \in {"graphrag", "compare"}

\* The store calls of an ended operation that returned: one lookup when a
\* study was extracted, one query per (campus, nearby station) pair when
\* routes are computed, whatever the calls before it did.
StoreCallsOfReturned ==
  \E g \in {ReturnedGraphrag(result)} :
    /\ Occurrences(calls, "mongo.find") = (IF Truthy(g.entities.estudio) THEN 1 ELSE 0)
    /\ Occurrences(calls, "neo4j.run")
         = (IF CalculatesRoutes(g.entities.estacion_origen, g.context.campus)
            THEN Len(DiscoveryPairs(g.context.campus)) ELSE 0)

\* C24: no sub-call is retried or cached: within one graphrag_recommendation
\* call the document capability is queried at most once, the graph capability
\* at most once per (campus, nearby station) pair, and the generation
\* capability exactly once and only after retrieval and prompt building have
\* finished, also when a sub-call fails; one compare_methods call makes
\* exactly two generation calls (baseline first, then graphrag), and a
\* repeated call re-executes all of them.
C24_EverySubCallOnce ==
  PipelineEnded =>
    /\ Occurrences(calls, "mongo.find") <= 1
    /\ Occurrences(calls, "neo4j.session") <= 1
    /\ Occurrences(calls, "llm.generate") = Generations(op)
    /\ calls[Len(calls)] = "llm.generate"
    /\ op = "compare" => /\ calls[1] = "llm.generate"
                          /\ prompts[1].kind = "baseline"
                          /\ prompts[2].kind = "augmented"
    /\ raised = "" => StoreCallsOfReturned

\* The first template of the list, in its order, that matches the query; 0
\* when none does.
FirstMatching(q, patterns) ==
  Min0({i \in 1..Len(patterns) : Search(q, patterns[i]) # NoneVal})

\* _extract_entities has been applied to the query.
EntitiesExtracted == op = "_extract_entities" /\ pc = "idle"

\* C25: entity extraction applies, independently for origin station and for
\* study name, its templates in their fixed order and takes the value of the
\* first template that matches; the gazetteer fallback for a field is
\* consulted only when no template matched for that field, and then the
\* first gazetteer entry (in list order) occurring in the query wins; a field
\* with no template match and no gazetteer hit is None, and extraction never
\* raises.
C25_FirstTemplateElseGazetteer ==
  EntitiesExtracted =>
    /\ \E i \in {FirstMatching(query, estacion_patterns)} :
         entities.estacion_origen
           = IF i # 0 THEN Title(Strip(Search(query, estacion_patterns[i])))
             ELSE FirstKnown(query, estaciones_comunes)
    /\ \E i \in {FirstMatching(query, estudio_patterns)} :
         entities.estudio
           = IF i # 0 THEN Strip(Search(query, estudio_patterns[i]))
             ELSE FirstKnown(query, estudios_comunes)

\* validate_route has been applied to the response.
RouteValidated == op = "validate_route" /\ pc = "idle"

\* The phrase "cambio de línea".
CambioDeLinea == L_cambio \o <<" ">> \o L_de \o <<" ">> \o L_linea_acc

\* C26: transfer-count extraction in validate_route: for every response
\* text, if it contains "sin transbordo" or "directo" the reported transfer
\* count is 0; otherwise, if it contains a phrase of the form "N transbordo"
\* the reported count is the N of the first such phrase, whichever other
\* transfer patterns (such as "cambio de línea") also occur in the text;
\* otherwise, if it contains "cambio de línea" the count is 1; otherwise 0.
C26_TransferCountByPhrase ==
  RouteValidated =>
    \E text \in {Lower(query)} :
      result.metrics.num_transbordos_mencionados
        = IF Contains(text, L_sin_transbordo) \/ Contains(text, L_directo) THEN 0
          ELSE IF FirstTransbordoDigits(text) # <<>> THEN StrInt(FirstTransbordoDigits(text))
          ELSE IF Contains(text, CambioDeLinea) THEN 1
          ELSE 0

\* The hallucination-indicator phrases found in a response.
IndicatorsIn(response) ==
  Bind(Lower(response), LAMBDA text :
    Cardinality({h \in 1..Len(hallucination_indicators) :
                   Contains(text, hallucination_indicators[h])}))

\* run_benchmark has returned.
BenchmarkReturned == bpc = "done" /\ benchmark_results # NoBenchmark

\* C27: the summary's hallucination total of each method equals the number
\* of hallucination flags recorded for that method's responses over all
\* scored items: for baseline the hallucination-indicator phrases found in
\* the baseline responses, and for graphrag the hallucination-indicator
\* phrases found in the graphrag responses plus the campus mentions flagged
\* by the context cross-check.
C27_HallucinationTotalsPerMethod ==
  BenchmarkReturned =>
    \E rs \in {benchmark_results.results} :
      /\ benchmark_results.summary.total_hallucinations_baseline
           = SumSeq([r \in 1..Len(rs) |-> IndicatorsIn(rs[r].baseline_response)])
      /\ benchmark_results.summary.total_hallucinations_graphrag
           = SumSeq([r \in 1..Len(rs) |->
                       IndicatorsIn(rs[r].graphrag_response) + Len(rs[r].graphrag_hallucinations)])

\* C28: whenever construction of the orchestrator fails, no store connection
\* opened during that construction remains open: if the document-store
\* connection succeeded and the graph-store connection or its check then
\* fails, the document-store client (and any graph driver already created)
\* is released before the ConnectionError reaches the caller.
C28_FailedConstructionReleasesStores ==
  (pc = "failed" /\ raised = "ConnectionError")
  => /\ "mongo.server_info" \notin faults => mongo_client # "open"
     /\ neo4j_driver # "open"

\* C29: when an entity is absent (None), the augmented prompt renders the
\* placeholder chosen for it instead of the absent value: "No especificada"
\* for a missing origin station and "No especificado" for a missing study in
\* the entities block, and "[origen]" in the routes heading when the origin is
\* missing.
C29_PlaceholdersForAbsentEntities ==
  augmented_prompt.kind = "augmented" =>
    /\ entities.estacion_origen = NoneVal
         => /\ augmented_prompt.estacion_origen = NoEspecificada
            /\ augmented_prompt.rutas_desde = OrigenPlaceholder
    /\ entities.estudio = NoneVal => augmented_prompt.estudio = NoEspecificado

\* The name of a campus as a sentence gives it: without the university in
\* brackets after it.
NameInText(nombre) ==
  Bind(Min0({k \in 1..Len(nombre) : nombre[k] = "("}), LAMBDA k :
    IF k = 0 THEN nombre ELSE Strip(SubSeq(nombre, 1, k - 1)))

\* Every campus the text mentions is a campus of the context.
MentionsOnlyContextCampus(text, context) ==
  \A name \in CampusNames :
    ContainsCI(text, NameInText(name))
    => \E c \in 1..Len(context.campus) : context.campus[c].nombre = name

\* detect_hallucinations_graphrag has been applied to the response and the
\* context.
HallucinationsDetected == op = "detect_hallucinations_graphrag" /\ pc = "idle"

\* C30: the graphrag hallucination check raises no false alarm: if every
\* campus the response text mentions is a campus of the retrieved context
\* (the mention being followed by any further words of the sentence),
\* detect_hallucinations_graphrag returns an empty list.
C30_NoFalseAlarm ==
  (HallucinationsDetected /\ MentionsOnlyContextCampus(query, context_data))
  => result.hallucinations = <<>>

====
